---- MODULE Spec2Model ----
(***************************************************************************)
(* Jsoncut MCP server: the HTTP variant's session multiplexer              *)
(* (http-server.ts, kept as src/unnamed/part_001), the stdio variant's     *)
(* tool registry (src/src/index.ts), the config builders of both variants  *)
(* and the remote validator client.                                        *)
(*                                                                         *)
(* The specifications of the module:                                       *)
(*   Spec       the HTTP process: express handlers on /mcp, the session    *)
(*              map, transports, registries                                *)
(*   SpecIso    two runs of the HTTP process side by side, which get the   *)
(*              same requests of one client and different ones of another *)
(*   SpecStdio  validate_config of the stdio variant                       *)
(*   SpecBuild  create_image_config / create_video_config, both variants   *)
(*   SpecSchema a process of either variant from its first statement: the  *)
(*              schema documents, listen or connect, the schema tools      *)
(*   SpecFlight the HTTP process with validation calls that stay suspended *)
(*   SpecBoth   a registry of each variant, given the same tool call       *)
(***************************************************************************)
EXTENDS Integers, Sequences, FiniteSets, TLC

-----------------------------------------------------------------------------
(* Bounds *)

\* how many distinct values randomUUID() can return in one run
MaxSessions == 2

\* how many fields an argument bundle given to a builder has at most
MaxFields == 1

\* how many validate_config calls the stdio process is sent in one run
MaxCalls == 2

\* how many validation calls of the HTTP process are started in one run
MaxFlights == 2

-----------------------------------------------------------------------------
(* JavaScript values *)

\* JS undefined: an absent header, an absent argument
Undefined == "undefined"

\* the API keys callers present
Keys == {"kA", "kB"}

\* what a header or an apiKey argument can hold: absent, empty, or a key
Creds == Keys \cup {Undefined, ""}

\* JS truthiness of a string-or-undefined value (!x)
Null == "null"
Falsy(x) == x \in {Undefined, Null, ""}

\* values of the mcp-session-id header: 0 is the absent header
NoSid == 0
SessionIds == 1..MaxSessions
SidHeaders == SessionIds \cup {NoSid}

-----------------------------------------------------------------------------
(* Requests *)

ToolNames ==
  {"create_image_config", "create_video_config", "validate_config",
   "get_image_schema", "get_video_schema", "no_such_tool"}

\* the arguments of a tools/call as the HTTP variant's handlers read them;
\* present = FALSE is a call without an arguments object
NoArgs == [present |-> FALSE, type |-> Undefined, config |-> Undefined, apiKey |-> Undefined]

HttpArgs ==
  {NoArgs} \cup
  [present : {TRUE}, type : {"image"}, config : {"cfg"}, apiKey : Creds]

\* req.body after express.json(): the JSON-RPC method and, for tools/call,
\* the tool name and its arguments. An empty body has no method.
Bodies ==
  [method : {"initialize", "ping", Undefined}, name : {Undefined}, args : {NoArgs}]
  \cup [method : {"tools/call"}, name : ToolNames \ {"validate_config"}, args : {NoArgs}]
  \cup [method : {"tools/call"}, name : {"validate_config"}, args : HttpArgs]

\* the bodies the behaviours of Spec send to a stored session: one for each
\* way a body can change the process or its answer
SentBodies ==
  [method : {"initialize", Undefined}, name : {Undefined}, args : {NoArgs}]
  \cup [method : {"tools/call"}, name : {"create_image_config", "no_such_tool"}, args : {NoArgs}]
  \cup [method : {"tools/call"}, name : {"validate_config"},
        args : {a \in HttpArgs : a.apiKey \in {Undefined, "kB"}}]

\* the bodies sent without a stored session: the handler reads only
\* whether the body is an initialize request
NewBodies == [method : {"initialize", Undefined}, name : {Undefined}, args : {NoArgs}]

\* the x-api-key headers sent without a stored session
SentKeys == Keys \cup {Undefined}

\* the x-api-key header sent to a stored session, whose handler never reads
\* it: a key that differs from the key of some sessions and equals others'
RoutedKeys == {"kB"}

\* how a call into the SDK transport ends: it answers the request itself
\* ("ok"), answers it with an error status ("rejected": bad Accept header,
\* malformed message, uninitialized transport), or its promise rejects
TransportOutcomes == {"ok", "rejected", "throws"}

\* what the remote API does with one validation request
RemoteAnswers == {"valid", "invalid", "http401", "neterr"}

isInitializeRequest(body) == body.method = "initialize"

-----------------------------------------------------------------------------
(* State *)

VARIABLES
  proc,       \* the HTTP process: sessions map, object heap, signal listeners
  last,       \* the event handled last and what it answered
  issued,     \* every value randomUUID() has returned so far
  issuedKey,  \* for each issued session id, the x-api-key presented at creation
  pair,       \* SpecIso: two HTTP processes and what each answered last to A
  stdio,      \* SpecStdio: the stdio process and the tool call it handled last
  build,      \* SpecBuild: an argument bundle and what a builder made of it
  boot,       \* SpecSchema: a process of either variant from its start
  flight,     \* SpecFlight: an HTTP process and its validation calls in flight
  both        \* SpecBoth: a registry of each variant and the call both were given

httpVars == <<proc, last, issued, issuedKey>>
isoVars == <<pair>>
stdioVars == <<stdio>>
buildVars == <<build>>
bootVars == <<boot>>
flightVars == <<flight>>
bothVars == <<both>>
vars == <<httpVars, isoVars, stdioVars, buildVars, bootVars, flightVars, bothVars>>

EmptyMap == [x \in {} |-> 0]

Remove(f, k) == [x \in DOMAIN f \ {k} |-> f[x]]

\* const sessions = new Map(); nothing constructed yet
InitProc ==
  [sessions |-> EmptyMap,
   transports |-> EmptyMap,
   servers |-> EmptyMap,
   allocated |-> 0,
   sigint |-> {}]

-----------------------------------------------------------------------------
(* The registry of the HTTP variant: class JsoncutMCPServer *)

NoResult == [isError |-> FALSE, kind |-> "none", detail |-> Undefined]

\* getApiKey with its operands swapped: this.apiKey || providedKey
getApiKey_fallbackFirst(providedKey, thisApiKey) ==
  LET apiKey == IF Falsy(thisApiKey) THEN providedKey ELSE thisApiKey
  IN [threw |-> Falsy(apiKey), key |-> apiKey]

\* getApiKey(providedKey): the argument's key if truthy, else this.apiKey;
\* throws when neither is truthy
getApiKey(providedKey, thisApiKey) ==
  LET apiKey == IF Falsy(providedKey) THEN thisApiKey ELSE providedKey
  IN [threw |-> Falsy(apiKey), key |-> apiKey]

\* handleValidateConfig up to its await: destructures the arguments, picks
\* the key, and issues axios.post with the X-API-Key header. Every throw is
\* caught by the handler's own catch and becomes an error result.
handleValidateConfig(server, args) ==
  IF ~args.present
  THEN [suspended |-> FALSE, key |-> Undefined,
        result |-> [isError |-> TRUE, kind |-> "validation_error", detail |-> "TypeError"]]
  ELSE LET k == getApiKey(args.apiKey, server.apiKey)
       IN IF k.threw
          THEN [suspended |-> FALSE, key |-> Undefined,
                result |-> [isError |-> TRUE, kind |-> "validation_error",
                            detail |-> "API key is required"]]
          ELSE [suspended |-> TRUE, key |-> k.key, result |-> NoResult]

\* handleValidateConfig after its await: the 2xx body is returned as text,
\* a rejected post (non-2xx or no response) becomes an error result
validateReply(answer) ==
  IF answer \in {"valid", "invalid"}
  THEN [isError |-> FALSE, kind |-> "validation", detail |-> answer]
  ELSE [isError |-> TRUE, kind |-> "validation_error", detail |-> answer]

\* the CallToolRequestSchema handler: dispatch by tool name, every throw
\* turned into an error result. answer is what the remote API does with the
\* request if validate_config sends one; key is the X-API-Key it was sent with.
CallTool(server, name, args, answer) ==
  CASE name = "create_image_config" ->
         [key |-> Undefined, result |-> [isError |-> FALSE, kind |-> "config", detail |-> "args"]]
    [] name = "create_video_config" ->
         [key |-> Undefined, result |-> [isError |-> FALSE, kind |-> "config", detail |-> "args"]]
    [] name = "validate_config" ->
         LET v == handleValidateConfig(server, args)
         IN IF v.suspended
            THEN [key |-> v.key, result |-> validateReply(answer)]
            ELSE [key |-> Undefined, result |-> v.result]
    [] name = "get_image_schema" ->
         [key |-> Undefined, result |-> [isError |-> FALSE, kind |-> "schema", detail |-> "imageSchema"]]
    [] name = "get_video_schema" ->
         [key |-> Undefined, result |-> [isError |-> FALSE, kind |-> "schema", detail |-> "videoSchema"]]
    [] OTHER ->
         [key |-> Undefined, result |-> [isError |-> TRUE, kind |-> "error", detail |-> "Unknown tool"]]

\* new JsoncutMCPServer(apiKey): the object holds the key; its constructor
\* (setupErrorHandling) registers a SIGINT listener on the process
\* one registry for the whole process instead of one per session
NewServer_singleton(p) == 1

NewServer(p) == p.allocated + 1

\* the key kept in one place for the whole process instead of in the object
Construct_sharedKey(p, s, apiKey) ==
  [p EXCEPT !.servers = [v \in DOMAIN @ \cup {s} |-> [apiKey |-> apiKey]],
            !.sigint = @ \cup {s}]

Construct(p, s, apiKey) ==
  [p EXCEPT !.servers = (s :> [apiKey |-> apiKey]) @@ @,
            !.sigint = @ \cup {s}]

-----------------------------------------------------------------------------
(* The SDK transport, as the handlers use it *)

\* what a handler answered: status 0 is no response written
NoRes ==
  [status |-> 0, error |-> "none", server |-> 0, cred |-> Undefined,
   outKey |-> Undefined, result |-> NoResult]

\* new StreamableHTTPServerTransport({sessionIdGenerator: () => newSessionId})
NewTransport(p) == p.allocated + 1

FreshTransport(newSessionId) ==
  [sessionId |-> newSessionId, initialized |-> FALSE, onclose |-> NoSid, server |-> 0]

\* transport.onclose = () => { sessions.delete(newSessionId) }
\* the close handler forgets every session
onclose_clearAll(p, t) == [p EXCEPT !.sessions = EmptyMap]

onclose(p, t) ==
  IF p.transports[t].onclose = NoSid THEN p
  ELSE [p EXCEPT !.sessions = Remove(@, p.transports[t].onclose)]

\* transport.close(): the onclose callback runs
TransportClose(p, t) == onclose(p, t)

\* a transport that closes itself when the tool call it delivered came back
\* as an error result
TransportHandleRequest_closeOnError(p, t, method, body, o, answer) ==
  LET tr == p.transports[t]
      init == method = "POST" /\ isInitializeRequest(body)
      permitted == (IF init THEN ~tr.initialized ELSE tr.initialized)
                   /\ tr.server # 0
      eff == IF o = "ok" /\ ~permitted THEN "rejected" ELSE o
      srv == p.servers[tr.server]
      call == CallTool(srv, body.name, body.args, answer)
      routed == [NoRes EXCEPT !.status = 200, !.server = tr.server, !.cred = srv.apiKey]
  IN CASE eff = "throws" -> [proc |-> p, threw |-> TRUE, res |-> NoRes]
       [] eff = "rejected" ->
            [proc |-> p, threw |-> FALSE,
             res |-> [NoRes EXCEPT !.status = 400, !.error = "transport_rejected"]]
       [] method = "DELETE" ->
            [proc |-> TransportClose(p, t), threw |-> FALSE, res |-> routed]
       [] init ->
            [proc |-> [p EXCEPT !.transports[t].initialized = TRUE],
             threw |-> FALSE, res |-> routed]
       [] method = "POST" /\ body.method = "tools/call" ->
            [proc |-> IF call.result.isError THEN TransportClose(p, t) ELSE p,
             threw |-> FALSE,
             res |-> [routed EXCEPT !.outKey = call.key, !.result = call.result]]
       [] OTHER -> [proc |-> p, threw |-> FALSE, res |-> routed]

\* transport.handleRequest(req, res, body): validates the request against
\* the transport's own state, then initializes, opens the stream, closes
\* (DELETE) or hands the message to the connected server. A tools/call is
\* followed to its result: answer is the remote API's part in it.
TransportHandleRequest(p, t, method, body, o, answer) ==
  LET tr == p.transports[t]
      init == method = "POST" /\ isInitializeRequest(body)
      permitted == (IF init THEN ~tr.initialized ELSE tr.initialized)
                   /\ tr.server # 0
      eff == IF o = "ok" /\ ~permitted THEN "rejected" ELSE o
      srv == p.servers[tr.server]
      call == CallTool(srv, body.name, body.args, answer)
      routed == [NoRes EXCEPT !.status = 200, !.server = tr.server, !.cred = srv.apiKey]
  IN CASE eff = "throws" -> [proc |-> p, threw |-> TRUE, res |-> NoRes]
       [] eff = "rejected" ->
            [proc |-> p, threw |-> FALSE,
             res |-> [NoRes EXCEPT !.status = 400, !.error = "transport_rejected"]]
       [] OTHER ->
            CASE method = "DELETE" ->
                   [proc |-> TransportClose(p, t), threw |-> FALSE, res |-> routed]
              [] method = "GET" ->
                   [proc |-> p, threw |-> FALSE, res |-> routed]
              [] init ->
                   [proc |-> [p EXCEPT !.transports[t].initialized = TRUE],
                    threw |-> FALSE, res |-> routed]
              [] body.method = "tools/call" ->
                   [proc |-> p, threw |-> FALSE,
                    res |-> [routed EXCEPT !.outKey = call.key, !.result = call.result]]
              [] OTHER ->
                   [proc |-> p, threw |-> FALSE, res |-> routed]

\* mcpServer.server.connect(transport): the transport delivers to this server
Connect(p, s, t) == [p EXCEPT !.transports[t].server = s]

-----------------------------------------------------------------------------
(* The express handlers on /mcp *)

\* 400 of POST: 'Bad Request: No valid session ID provided or not an
\* initialize request'; 400 of GET and DELETE: 'Invalid or missing session ID'
InvalidSession == [NoRes EXCEPT !.status = 400, !.error = "invalid_session"]

\* 401 'Missing X-API-Key header'
MissingKey == [NoRes EXCEPT !.status = 401, !.error = "missing_api_key"]

\* 500 'Internal server error' written by the catch of the POST handler
InternalError == [NoRes EXCEPT !.status = 500, !.error = "internal"]

\* a rejected promise of a handler without try/catch: nothing is written
Unhandled == [NoRes EXCEPT !.error = "unhandled_rejection"]

\* the new-session block of the POST handler, up to the close handler:
\* transport and server are constructed, the session is stored under
\* newSessionId, and the transport's onclose is set to delete that entry
CreateSession(p, newSessionId, apiKey) ==
  LET t == NewTransport(p)
      s == NewServer(p)
      p1 == [p EXCEPT !.transports = (t :> FreshTransport(newSessionId)) @@ @]
      p2 == Construct(p1, s, apiKey)
      p3 == [p2 EXCEPT !.sessions =
                (newSessionId :> [transport |-> t, server |-> s]) @@ @]
  IN [p3 EXCEPT !.transports[t].onclose = newSessionId, !.allocated = @ + 1]

\* app.post('/mcp'): c says whether server.connect rejects, o how the
\* transport's handleRequest ends, newSessionId what randomUUID returns
PostMcp(p, sessionId, apiKey, body, o, c, answer, newSessionId) ==
  IF sessionId # NoSid /\ sessionId \in DOMAIN p.sessions
  THEN LET r == TransportHandleRequest(p, p.sessions[sessionId].transport, "POST",
                                       body, o, answer)
       IN [proc |-> r.proc, uuid |-> FALSE,
           res |-> IF r.threw THEN InternalError ELSE r.res]
  ELSE IF ~isInitializeRequest(body)
  THEN [proc |-> p, uuid |-> FALSE, res |-> InvalidSession]
  ELSE IF Falsy(apiKey)
  THEN [proc |-> p, uuid |-> FALSE, res |-> MissingKey]
  ELSE LET p1 == CreateSession(p, newSessionId, apiKey)
           t == p1.sessions[newSessionId].transport
           s == p1.sessions[newSessionId].server
           p2 == Connect(p1, s, t)
           r == TransportHandleRequest(p2, t, "POST", body, o, answer)
       IN IF c
          THEN [proc |-> p1, uuid |-> TRUE, res |-> InternalError]
          ELSE [proc |-> r.proc, uuid |-> TRUE,
                res |-> IF r.threw THEN InternalError ELSE r.res]

NoBody == [method |-> Undefined, name |-> Undefined, args |-> NoArgs]

\* app.get('/mcp')
GetMcp(p, sessionId, o) ==
  IF sessionId = NoSid \/ sessionId \notin DOMAIN p.sessions
  THEN [proc |-> p, res |-> InvalidSession]
  ELSE LET r == TransportHandleRequest(p, p.sessions[sessionId].transport, "GET",
                                       NoBody, o, "neterr")
       IN [proc |-> r.proc, res |-> IF r.threw THEN Unhandled ELSE r.res]

\* app.delete('/mcp'): sessions.delete runs only after the awaited
\* handleRequest has resolved
DeleteMcp(p, sessionId, o) ==
  IF sessionId = NoSid \/ sessionId \notin DOMAIN p.sessions
  THEN [proc |-> p, res |-> InvalidSession]
  ELSE LET r == TransportHandleRequest(p, p.sessions[sessionId].transport, "DELETE",
                                       NoBody, o, "neterr")
       IN IF r.threw
          THEN [proc |-> r.proc, res |-> Unhandled]
          ELSE [proc |-> [r.proc EXCEPT !.sessions = Remove(@, sessionId)], res |-> r.res]

-----------------------------------------------------------------------------
(* Spec: the HTTP process *)

\* what is kept of the event handled last. Of the request: its method, the
\* two headers the handlers read, whether its body is an initialize request
\* and the apiKey argument of its tool call; whether its session id was
\* stored, and whether it had ever been issued, when it arrived; of the
\* answer: status, error, the registry it was routed to, the credential that registry carries, the X-API-Key of the
\* outbound request made for it, whether the tool result is an error; and
\* whether the sessions map differs from what it was before.
Event(kind, method, sid, key, body, p, r) ==
  [kind |-> kind, method |-> method, sid |-> sid, key |-> key,
   init |-> isInitializeRequest(body), argKey |-> body.args.apiKey,
   live |-> sid \in DOMAIN p.sessions, known |-> sid \in issued,
   status |-> r.res.status, error |-> r.res.error, server |-> r.res.server,
   cred |-> r.res.cred, outKey |-> r.res.outKey, isError |-> r.res.result.isError,
   changed |-> r.proc.sessions # p.sessions]

\* what a client sees of an answer: everything but the identity of objects
Obs(res) ==
  [status |-> res.status, error |-> res.error, cred |-> res.cred,
   outKey |-> res.outKey, result |-> res.result]

InitPair ==
  [left |-> InitProc, right |-> InitProc,
   usedLeft |-> {}, usedRight |-> {},
   outLeft |-> Obs(NoRes), outRight |-> Obs(NoRes)]

InitHttp ==
  /\ proc = InitProc
  /\ issued = {}
  /\ issuedKey = EmptyMap
  /\ last = Event("none", Undefined, NoSid, Undefined, NoBody, InitProc,
                  [proc |-> InitProc, res |-> NoRes])

\* JSON values, and undefined; an array is kept by its length
Json(t, n, text) == [t |-> t, n |-> n, text |-> text]
Num(n) == Json("number", n, "")
Str(text) == Json("string", 0, text)
False == Json("boolean", 0, "")
JsonNull == Json(Null, 0, "")
Arr(length) == Json("array", length, "")
Undef == Json(Undefined, 0, "")

\* JavaScript truthiness
Truthy(v) ==
  ~ \/ v.t \in {Undefined, Null}
    \/ v.t \in {"number", "boolean"} /\ v.n = 0
    \/ v.t = "string" /\ v.text = ""

\* no bundle: request.params.arguments is undefined
NoBundle == [present |-> FALSE, fields |-> EmptyMap]

NoBuild == [isError |-> FALSE, shape |-> "none", type |-> "none", config |-> EmptyMap]

InitBuild(args) == [variant |-> "none", tool |-> "none", args |-> args, result |-> NoBuild]

\* what is at the path of a schema document when the process starts: no
\* file, a file that is not JSON, or a JSON document
NoFile == "ENOENT"
ImageSchemaFile == "{\"title\":\"Image\"}"
VideoSchemaFile == "{\"title\":\"Video\"}"
SchemaFiles == {NoFile, "", "{oops", "null", ImageSchemaFile, VideoSchemaFile}

\* no request answered yet
NoServed == [op |-> "none", session |-> NoSid, text |-> Undefined, threw |-> FALSE]

\* a process of one variant about to run its module: the two files it will
\* read, the two constants it has not yet set, and nothing served
InitBoot(variant, image, video) ==
  [variant |-> variant, files |-> [image |-> image, video |-> video],
   pc |-> "load_image", imageSchema |-> Undef, videoSchema |-> Undef,
   accepted |-> FALSE, served |-> NoServed]

\* nothing handled yet by the HTTP process with calls in flight
NoFlightEvent ==
  [kind |-> "none", sid |-> NoSid, status |-> 0, server |-> 0, isError |-> FALSE,
   during |-> 0, call |-> 0, delivered |-> FALSE]

\* an HTTP process after start-up, no validation call started: the process,
\* the session ids issued, the calls suspended on their post, how many calls
\* were started, whether server.onerror has logged anything, and the event
\* handled last
InitFlight ==
  [proc |-> InitProc, used |-> {}, pending |-> {}, started |-> 0,
   logged |-> FALSE, last |-> NoFlightEvent]

\* process.env as the stdio process finds it
Envs == {Undefined, "", "kA"}

\* const config = { apiKey: process.env.JSONCUT_API_KEY || null, ... }
config(env) == [apiKey |-> IF Falsy(env) THEN Null ELSE env]

NoStdioArgs ==
  [present |-> FALSE, type |-> Undefined, config |-> [t |-> Undefined, text |-> ""],
   apiKey |-> Undefined]

\* a tool result of the stdio variant: isError, the first line of its text,
\* and what the lines after it say
NoStdioResult ==
  [isError |-> FALSE, text |-> "none", valid |-> "none", tokens |-> Undef,
   errors |-> <<>>, resources |-> <<>>]

\* an optional list of a response body
Absent == [present |-> FALSE, items |-> <<>>]
Listed(items) == [present |-> TRUE, items |-> items]

\* validation.errors
ErrorLists ==
  {Absent, Listed(<<>>),
   Listed(<<[message |-> "width must be a number", field |-> "width"],
            [message |-> "no layers", field |-> Undefined]>>)}

\* validation.detectedResources
ResourceLists ==
  {Absent, Listed(<<>>),
   Listed(<<[type |-> "image", url |-> "https://cdn/a.png", size |-> Num(2621440)],
            [type |-> "font", url |-> "https://cdn/f.ttf", size |-> Undef]>>)}

\* a response body with nothing in it
NoData ==
  [t |-> "object", success |-> FALSE, hasData |-> FALSE, isValid |-> FALSE,
   estimatedTokens |-> Undef, errors |-> Absent, detectedResources |-> Absent,
   error |-> Undefined, message |-> Undefined, details |-> Undef]

\* response.data of a 2xx answer
Bodies2xx ==
  {[NoData EXCEPT !.success = TRUE, !.hasData = TRUE, !.isValid = v,
                  !.estimatedTokens = k, !.errors = e, !.detectedResources = r] :
     v \in BOOLEAN, k \in {Undef, Num(120)}, e \in ErrorLists, r \in ResourceLists}
  \cup {[NoData EXCEPT !.success = x, !.hasData = ~x, !.error = m] :
          x \in BOOLEAN, m \in {Undefined, "quota exceeded"}}
  \cup {[NoData EXCEPT !.t = Null]}

\* the details of an error body, as compact JSON text
ExpiredDetails == "{\"reason\":\"expired\"}"

\* JSON.stringify(value, null, 2): a string in quotes, an object over several
\* lines with its members indented by two spaces
JSONstringify(v) ==
  CASE v.t = "string" -> "\"" \o v.text \o "\""
    [] v.t = "object" /\ v.text = ExpiredDetails -> "{\n  \"reason\": \"expired\"\n}"
    [] v.t = "object" /\ v.text = ImageSchemaFile -> "{\n  \"title\": \"Image\"\n}"
    [] v.t = "object" /\ v.text = VideoSchemaFile -> "{\n  \"title\": \"Video\"\n}"
    [] v.t = Null -> "null"
    [] OTHER -> v.text

\* error.response.data of a non-2xx answer
BodiesNon2xx ==
  {[NoData EXCEPT !.error = e, !.message = m, !.details = d] :
     e \in {Undefined, "Invalid API key"}, m \in {Undefined, "Unauthorized request"},
     d \in {Undef, Json("object", 0, ExpiredDetails), Str("expired")}}
  \cup {[NoData EXCEPT !.t = Null]}

\* what is being awaited when nothing is
NoAnswer ==
  [kind |-> "none", status |-> Undefined, statusText |-> Undefined, message |-> "",
   data |-> NoData]

\* no request other than a validate call handled yet
NoOther == [op |-> "none", result |-> NoStdioResult, escaped |-> FALSE]

\* no earlier validate call to compare the last one with
NoPrev ==
  [kept |-> FALSE, answer |-> NoAnswer, result |-> NoStdioResult, between |-> FALSE]

\* what a registry made of a tool call: whether the result is an error, the
\* configuration or the schema document in it, the verdict and the errors of
\* a validation in it, and the requests the registry posted for it
NoOutcome ==
  [isError |-> FALSE, config |-> EmptyMap, document |-> "none", valid |-> "none",
   errors |-> <<>>, sent |-> <<>>]

\* a registry of each variant constructed with the same credential, no tool
\* call handled yet: the stdio process's config, the HTTP registry's
\* this.apiKey; of the call both were given its tool name, its arguments (a
\* bundle for a builder, type, config and apiKey for validate_config) and
\* what the remote API answered; and what each registry made of it
InitBoth(cred) ==
  [cred |-> cred, config |-> config(cred), apiKey |-> cred,
   name |-> "none", bundle |-> NoBundle, args |-> NoStdioArgs, answer |-> NoAnswer,
   stdio |-> NoOutcome, http |-> NoOutcome]

\* the stdio process after start-up, no request handled yet: its config; of
\* the validate call handled last its arguments, what it posted, where it
\* stands, what its post settled with, its result and whether an exception
\* left the handler; how many validate calls came in and how many requests
\* went out; whether the last call repeated the arguments of the one before
\* and, if it did and its post settled alike, what became of the one before
\* and whether another request was handled between the two; and what became
\* of the last request that was not a validate call
InitStdio(env) ==
  [config |-> config(env), called |-> FALSE, args |-> NoStdioArgs,
   sent |-> <<>>, result |-> NoStdioResult, escaped |-> FALSE,
   phase |-> "idle", answer |-> NoAnswer,
   calls |-> 0, posted |-> 0, repeat |-> FALSE, prev |-> NoPrev,
   other |-> NoOther]

Init ==
  /\ InitHttp
  /\ pair = InitPair
  /\ stdio = InitStdio(Undefined)
  /\ build = InitBuild(NoBundle)
  /\ boot = InitBoot("none", NoFile, NoFile)
  /\ flight = InitFlight
  /\ both = InitBoth("kA")

\* randomUUID(): a value never returned before (the smallest unused one:
\* identifiers are interchangeable)
randomUUID == IF issued = SessionIds THEN NoSid
              ELSE CHOOSE n \in SessionIds \ issued : \A m \in SessionIds \ issued : n <= m

\* the objects a handler can still reach: those of the stored sessions.
\* Objects of removed sessions are dropped from the model's heap; the
\* listener set keeps the identities of the servers the process retains.
Reachable(p) ==
  [p EXCEPT !.transports = [t \in {p.sessions[x].transport : x \in DOMAIN p.sessions} |-> @[t]],
            !.servers = [v \in {p.sessions[x].server : x \in DOMAIN p.sessions} |-> @[v]]]

Post ==
  \E sessionId \in SidHeaders :
    LET live == sessionId \in DOMAIN proc.sessions
    IN \E apiKey \in (IF live THEN RoutedKeys ELSE SentKeys),
          body \in (IF live THEN SentBodies ELSE NewBodies) :
         LET creating == ~live /\ isInitializeRequest(body) /\ ~Falsy(apiKey)
             \* a failing transport answers every body alike
             mayFail == creating \/ (live /\ body.method # "tools/call")
             sends == live /\ body.name = "validate_config" /\ body.args.present
         IN \E o \in (IF mayFail THEN TransportOutcomes ELSE {"ok"}),
               c \in (IF creating THEN BOOLEAN ELSE {FALSE}),
               answer \in (IF sends THEN RemoteAnswers ELSE {"neterr"}) :
              LET r == PostMcp(proc, sessionId, apiKey, body, o, c, answer, randomUUID)
              IN /\ r.uuid => randomUUID # NoSid
                 /\ proc' = Reachable(r.proc)
                 /\ last' = Event("request", "POST", sessionId, apiKey, body, proc, r)
                 /\ issued' = IF r.uuid THEN issued \cup {randomUUID} ELSE issued
                 /\ issuedKey' = IF r.uuid THEN (randomUUID :> apiKey) @@ issuedKey
                                  ELSE issuedKey
                 /\ UNCHANGED <<isoVars, stdioVars, buildVars, bootVars, flightVars, bothVars>>

Get ==
  \E sessionId \in SidHeaders :
    \E o \in (IF sessionId \in DOMAIN proc.sessions THEN TransportOutcomes ELSE {"ok"}) :
      LET r == GetMcp(proc, sessionId, o)
      IN /\ proc' = Reachable(r.proc)
         /\ last' = Event("request", "GET", sessionId, Undefined, NoBody, proc, r)
         /\ UNCHANGED <<issued, issuedKey, isoVars, stdioVars, buildVars, bootVars, flightVars, bothVars>>

Delete ==
  \E sessionId \in SidHeaders :
    \E o \in (IF sessionId \in DOMAIN proc.sessions THEN TransportOutcomes ELSE {"ok"}) :
      LET r == DeleteMcp(proc, sessionId, o)
      IN /\ proc' = Reachable(r.proc)
         /\ last' = Event("request", "DELETE", sessionId, Undefined, NoBody, proc, r)
         /\ UNCHANGED <<issued, issuedKey, isoVars, stdioVars, buildVars, bootVars, flightVars, bothVars>>

\* the transport of a stored session closes without a DELETE request
TransportClosed ==
  \E sid \in DOMAIN proc.sessions :
    /\ proc' = Reachable(TransportClose(proc, proc.sessions[sid].transport))
    /\ last' = Event("close", Undefined, sid, Undefined, NoBody, proc,
                     [proc |-> TransportClose(proc, proc.sessions[sid].transport),
                      res |-> NoRes])
    /\ UNCHANGED <<issued, issuedKey, isoVars, stdioVars, buildVars, bootVars, flightVars, bothVars>>

Next == Post \/ Get \/ Delete \/ TransportClosed

Spec == Init /\ [][Next]_vars

-----------------------------------------------------------------------------
(* SpecIso: two runs of the HTTP process. Client A sends the same requests *)
(* to both; client B sends each run requests of its own.                   *)

\* the ids randomUUID() returns to A and to B
SidA == CHOOSE n \in SessionIds : \A m \in SessionIds : n <= m
SidB == CHOOSE n \in SessionIds \ {SidA} : \A m \in SessionIds \ {SidA} : n <= m

\* what a client sends, with what the transport and the remote API make of it
Request(method, sid, key, body, o, c, answer) ==
  [method |-> method, sid |-> sid, key |-> key, body |-> body,
   o |-> o, c |-> c, answer |-> answer]

ToolCallsSent == {b \in SentBodies : b.method = "tools/call"}

\* requests bearing a session id, and requests bearing none, with one of the
\* given keys in the header of those that ask for a session
RequestsWith(sid, keys, calls, answers) ==
  {Request("POST", sid, "kB", b, o, FALSE, "neterr") :
     b \in NewBodies, o \in TransportOutcomes}
  \cup {Request("POST", sid, "kB", b, "ok", FALSE, a) : b \in calls, a \in answers}
  \cup {Request(m, sid, Undefined, NoBody, o, FALSE, "neterr") :
     m \in {"GET", "DELETE"}, o \in TransportOutcomes}
  \cup {Request("CLOSE", sid, Undefined, NoBody, "ok", FALSE, "neterr")}
  \cup {Request("POST", NoSid, k, [NoBody EXCEPT !.method = "initialize"], o, FALSE, "neterr") :
     k \in keys \cup {Undefined}, o \in TransportOutcomes}
  \cup {Request("POST", NoSid, k, [NoBody EXCEPT !.method = "initialize"], "ok", TRUE, "neterr") :
     k \in keys}

RequestsOfA == RequestsWith(SidA, {"kA"}, ToolCallsSent, {"valid", "neterr"})

RequestsOfB(sid) ==
  RequestsWith(sid, Keys, {b \in ToolCallsSent : b.args.apiKey = "kB"}, {"valid"})

\* the routes of the express app, and the close event of a transport
Handle(p, q, newSessionId) ==
  CASE q.method = "POST" ->
         LET r == PostMcp(p, q.sid, q.key, q.body, q.o, q.c, q.answer, newSessionId)
         IN [proc |-> r.proc, res |-> r.res]
    [] q.method = "GET" -> GetMcp(p, q.sid, q.o)
    [] q.method = "DELETE" -> DeleteMcp(p, q.sid, q.o)
    [] OTHER ->
         IF q.sid \in DOMAIN p.sessions
         THEN [proc |-> TransportClose(p, p.sessions[q.sid].transport), res |-> NoRes]
         ELSE [proc |-> p, res |-> NoRes]

\* the request makes the POST handler reach randomUUID()
Creates(p, q) ==
  /\ q.method = "POST"
  /\ ~(q.sid # NoSid /\ q.sid \in DOMAIN p.sessions)
  /\ isInitializeRequest(q.body)
  /\ ~Falsy(q.key)

\* what there is of a session in a process, apart from the identity of objects
View(p, sid) ==
  IF sid \in DOMAIN p.sessions
  THEN [stored |-> TRUE,
        cred |-> p.servers[p.sessions[sid].server].apiKey,
        initialized |-> p.transports[p.sessions[sid].transport].initialized,
        connected |-> p.transports[p.sessions[sid].transport].server # 0]
  ELSE [stored |-> FALSE, cred |-> Undefined, initialized |-> FALSE, connected |-> FALSE]

InitIso ==
  /\ InitHttp
  /\ pair = InitPair
  /\ stdio = InitStdio(Undefined)
  /\ build = InitBuild(NoBundle)
  /\ boot = InitBoot("none", NoFile, NoFile)
  /\ flight = InitFlight
  /\ both = InitBoth("kA")

\* the ids randomUUID() has returned, after a request was handled
Used(used, p, q, newSessionId) ==
  IF Creates(p, q) THEN used \cup {newSessionId} ELSE used

\* A sends a request; both processes handle it
RequestOfA ==
  \E q \in RequestsOfA :
    LET l == Handle(pair.left, q, SidA)
        r == Handle(pair.right, q, SidA)
    IN /\ Creates(pair.left, q) => SidA \notin pair.usedLeft
       /\ Creates(pair.right, q) => SidA \notin pair.usedRight
       /\ pair' = [left |-> Reachable(l.proc), right |-> Reachable(r.proc),
                   usedLeft |-> Used(pair.usedLeft, pair.left, q, SidA),
                   usedRight |-> Used(pair.usedRight, pair.right, q, SidA),
                   outLeft |-> Obs(l.res), outRight |-> Obs(r.res)]
       /\ UNCHANGED <<httpVars, stdioVars, buildVars, bootVars, flightVars, bothVars>>

\* B sends a request to the left process only
RequestOfBLeft ==
  \E sid \in SessionIds \ {SidA} : \E q \in RequestsOfB(sid) :
    /\ Creates(pair.left, q) => SidB \notin pair.usedLeft
    /\ pair' = [pair EXCEPT !.left = Reachable(Handle(@, q, SidB).proc),
                            !.usedLeft = Used(@, pair.left, q, SidB)]
    /\ UNCHANGED <<httpVars, stdioVars, buildVars, bootVars, flightVars, bothVars>>

\* B sends a request to the right process only
RequestOfBRight ==
  \E sid \in SessionIds \ {SidA} : \E q \in RequestsOfB(sid) :
    /\ Creates(pair.right, q) => SidB \notin pair.usedRight
    /\ pair' = [pair EXCEPT !.right = Reachable(Handle(@, q, SidB).proc),
                            !.usedRight = Used(@, pair.right, q, SidB)]
    /\ UNCHANGED <<httpVars, stdioVars, buildVars, bootVars, flightVars, bothVars>>

NextIso == RequestOfA \/ RequestOfBLeft \/ RequestOfBRight

SpecIso == InitIso /\ [][NextIso]_vars

-----------------------------------------------------------------------------
(* SpecStdio: validate_config of the stdio variant *)

\* values of the config argument: none, null, an object, and strings that
\* are empty, not JSON, or the JSON text of an object
ConfigValues ==
  {[t |-> Undefined, text |-> ""], [t |-> Null, text |-> ""],
   [t |-> "object", text |-> "{\"width\":1}"],
   [t |-> "string", text |-> ""], [t |-> "string", text |-> "{oops"],
   [t |-> "string", text |-> "{\"width\":1}"]}

StdioArgs ==
  {NoStdioArgs}
  \cup [present : {TRUE}, type : {Undefined, "", "image"}, config : ConfigValues,
        apiKey : Creds]

\* what becomes of the promise of axiosInstance.post: it resolves with a 2xx
\* response, or rejects with a response of another status, or rejects
\* without a response (connection refused, timeout, DNS failure, abort)
StdioAnswers ==
  [kind : {"2xx"}, status : {"200"}, statusText : {"OK"}, message : {""}, data : Bodies2xx]
  \cup [kind : {"non2xx"}, status : {"401"}, statusText : {"Unauthorized"},
         message : {"Request failed with status code 401"}, data : BodiesNon2xx]
  \cup [kind : {"non2xx"}, status : {"500"}, statusText : {"Internal Server Error"},
         message : {"Request failed with status code 500"},
         data : {b \in BodiesNon2xx : b.details = Undef}]
  \cup [kind : {"neterr"}, status : {Undefined}, statusText : {Undefined},
         message : {"connect ECONNREFUSED", "getaddrinfo ENOTFOUND api.jsoncut.com",
                    "canceled", ""},
         data : {NoData}]


\* JSON.parse: the value a text stands for, or a SyntaxError
JSONparse(text) ==
  IF text \in {"", "{oops"} THEN [threw |-> TRUE, value |-> [t |-> Undefined, text |-> ""]]
  ELSE IF text = "null" THEN [threw |-> FALSE, value |-> [t |-> Null, text |-> ""]]
  ELSE [threw |-> FALSE, value |-> [t |-> "object", text |-> text]]

ValidationError(message) == [NoStdioResult EXCEPT !.isError = TRUE, !.text = message]

MissingType == "Validation Error: Missing required parameter: type"
MissingConfig == "Validation Error: Missing required parameter: config"
InvalidJson == "Validation Error: Invalid config JSON string"
ApiKeyRequired == "Validation Error: API key is required. Set JSONCUT_API_KEY environment variable or provide apiKey parameter."
CannotDestructure == "Validation Error: Cannot destructure property 'type' of 'args' as it is undefined."

\* getApiKey without its test: whatever providedKey || config.apiKey gives
getApiKeyStdio_unchecked(providedKey, cfg) ==
  [threw |-> FALSE, key |-> IF Falsy(providedKey) THEN cfg.apiKey ELSE providedKey]

\* getApiKey with its operands swapped: config.apiKey || providedKey
getApiKeyStdio_fallbackFirst(providedKey, cfg) ==
  LET apiKey == IF Falsy(cfg.apiKey) THEN providedKey ELSE cfg.apiKey
  IN [threw |-> Falsy(apiKey), key |-> apiKey]

\* getApiKey of the stdio variant: providedKey || config.apiKey, or throws
getApiKeyStdio(providedKey, cfg) ==
  LET apiKey == IF Falsy(providedKey) THEN cfg.apiKey ELSE providedKey
  IN [threw |-> Falsy(apiKey), key |-> apiKey]

\* (size / 1024 / 1024).toFixed(2): megabytes, rounded to hundredths
toFixed2(size) ==
  LET hundredths == (size * 100 + 524288) \div 1048576
  IN [shown |-> TRUE, whole |-> hundredths \div 100, hundredths |-> hundredths % 100]

NoSize == [shown |-> FALSE, whole |-> 0, hundredths |-> 0]

\* validation.errors.length read without asking whether errors is there
ErrorLines_unguarded(errors) ==
  [threw |-> ~errors.present,
   lines |-> [idx \in 1..Len(errors.items) |->
                [n |-> idx, message |-> errors.items[idx].message,
                 field |-> errors.items[idx].field]]]

\* the lines written for validation.errors; the test
\* validation.errors && validation.errors.length > 0 keeps it from throwing
ErrorLines(errors) ==
  [threw |-> FALSE,
   lines |-> IF errors.present /\ Len(errors.items) > 0
             THEN [idx \in 1..Len(errors.items) |->
                     [n |-> idx, message |-> errors.items[idx].message,
                      field |-> errors.items[idx].field]]
             ELSE <<>>]

\* the lines written for validation.detectedResources
ResourceLines(resources) ==
  IF resources.present /\ Len(resources.items) > 0
  THEN [idx \in 1..Len(resources.items) |->
          [type |-> resources.items[idx].type, url |-> resources.items[idx].url,
           size |-> IF Truthy(resources.items[idx].size)
                    THEN toFixed2(resources.items[idx].size.n) ELSE NoSize]]
  ELSE <<>>


\* a catch block that looks at error.message only
stdioValidateCatch_messageOnly(error) ==
  [threw |-> FALSE, message |-> "",
   result |-> [NoStdioResult EXCEPT
                 !.isError = TRUE,
                 !.text = "Validation Error: " \o
                            (IF error.message # "" THEN error.message
                             ELSE "Unknown error occurred")]]

\* the catch block of handleValidateConfig, given what was thrown
stdioValidateCatch(error) ==
  LET errorData == error.data
      fromResponse ==
        IF ~Falsy(errorData.error) THEN errorData.error
        ELSE IF ~Falsy(errorData.message) THEN errorData.message
        ELSE "API Error: " \o error.status \o " " \o error.statusText
      withDetails ==
        IF ~Truthy(errorData.details) THEN fromResponse
        ELSE fromResponse \o "\nDetails: " \o JSONstringify(errorData.details)
      errorMessage ==
        IF error.kind = "non2xx" THEN withDetails
        ELSE IF error.message # "" THEN error.message
        ELSE "Unknown error occurred"
  IN IF error.kind = "non2xx" /\ errorData.t = Null
     THEN [threw |-> TRUE, message |-> "Cannot read properties of null (reading 'error')",
           result |-> NoStdioResult]
     ELSE [threw |-> FALSE, message |-> "",
           result |-> ValidationError("Validation Error: " \o errorMessage)]

\* handleValidateConfig of the stdio variant from the point where the awaited
\* post settles
stdioValidateReply(answer) ==
  LET result == answer.data
      validation == result
      TypeError(message) == [answer EXCEPT !.kind = "neterr", !.message = message]
      errors == ErrorLines(validation.errors)
  IN CASE answer.kind # "2xx" -> stdioValidateCatch(answer)
       [] result.t = Null ->
            stdioValidateCatch(TypeError("Cannot read properties of null (reading 'success')"))
       [] result.success /\ result.hasData /\ errors.threw ->
            stdioValidateCatch(TypeError("Cannot read properties of undefined (reading 'length')"))
       [] result.success /\ result.hasData ->
            [threw |-> FALSE, message |-> "",
             result |-> [isError |-> FALSE, text |-> "Validation Result:",
                         valid |-> IF validation.isValid THEN "yes" ELSE "no",
                         tokens |-> validation.estimatedTokens,
                         errors |-> errors.lines,
                         resources |-> ResourceLines(validation.detectedResources)]]
       [] OTHER ->
            [threw |-> FALSE, message |-> "",
             result |-> ValidationError("Validation Error: " \o
                          (IF Falsy(result.error) THEN "Validation failed" ELSE result.error))]

\* axiosInstance.post called twice for one request
axiosPost_twice(request) == <<request, request>>

\* axiosInstance.post: the requests one call puts on the wire
axiosPost(request) == <<request>>

\* handleValidateConfig looking for the credential before it looks at type
\* and config
stdioHandleValidateConfig_keyFirst(cfg, args) ==
  LET fail(message) ==
        [awaiting |-> FALSE, sent |-> <<>>, result |-> ValidationError(message)]
      parsed == JSONparse(args.config.text)
      parsedConfig == IF args.config.t = "string" THEN parsed.value ELSE args.config
      k == getApiKeyStdio(args.apiKey, cfg)
  IN IF ~args.present THEN fail(CannotDestructure)
     ELSE IF k.threw THEN fail(ApiKeyRequired)
     ELSE IF Falsy(args.type) THEN fail(MissingType)
     ELSE IF args.config.t \in {Undefined, Null} \/ args.config = [t |-> "string", text |-> ""]
          THEN fail(MissingConfig)
     ELSE IF args.config.t = "string" /\ parsed.threw THEN fail(InvalidJson)
     ELSE [awaiting |-> TRUE,
           sent |-> axiosPost([key |-> k.key, type |-> args.type, config |-> parsedConfig]),
           result |-> NoStdioResult]

\* handleValidateConfig of the stdio variant up to the awaited post; sent is
\* what went out
stdioHandleValidateConfig(cfg, args) ==
  LET fail(message) ==
        [awaiting |-> FALSE, sent |-> <<>>, result |-> ValidationError(message)]
      parsed == JSONparse(args.config.text)
      parsedConfig == IF args.config.t = "string" THEN parsed.value ELSE args.config
      k == getApiKeyStdio(args.apiKey, cfg)
  IN IF ~args.present THEN fail(CannotDestructure)
     ELSE IF Falsy(args.type) THEN fail(MissingType)
     ELSE IF args.config.t \in {Undefined, Null} \/ args.config = [t |-> "string", text |-> ""]
          THEN fail(MissingConfig)
     ELSE IF args.config.t = "string" /\ parsed.threw THEN fail(InvalidJson)
     ELSE IF k.threw THEN fail(ApiKeyRequired)
     ELSE [awaiting |-> TRUE,
           sent |-> axiosPost([key |-> k.key, type |-> args.type, config |-> parsedConfig]),
           result |-> NoStdioResult]

\* the catch of the CallToolRequestSchema handler
stdioToolError(message) == ValidationError("Error: " \o message)

\* the CallToolRequestSchema handler for the tools that take no arguments,
\* and for names it does not know
stdioCallTool(name) ==
  CASE name = "get_image_schema" -> [NoStdioResult EXCEPT !.text = "imageSchema"]
    [] name = "get_video_schema" -> [NoStdioResult EXCEPT !.text = "videoSchema"]
    [] OTHER -> stdioToolError("Unknown tool: " \o name)

ResourceUris == {"schema://image", "schema://audio"}

\* the ReadResourceRequestSchema handler
stdioReadResource(uri) ==
  CASE uri = "schema://image" ->
         [threw |-> FALSE, result |-> [NoStdioResult EXCEPT !.text = "imageSchema"]]
    [] uri = "schema://video" ->
         [threw |-> FALSE, result |-> [NoStdioResult EXCEPT !.text = "videoSchema"]]
    [] OTHER -> [threw |-> TRUE, result |-> NoStdioResult]

InitSpecStdio ==
  /\ InitHttp
  /\ pair = InitPair
  /\ \E env \in Envs : stdio = InitStdio(env)
  /\ build = InitBuild(NoBundle)
  /\ boot = InitBoot("none", NoFile, NoFile)
  /\ flight = InitFlight
  /\ both = InitBoth("kA")

\* a tools/call request for validate_config arrives; the handler runs until
\* it returns or awaits the post
ValidateConfig ==
  /\ stdio.phase = "idle"
  /\ stdio.calls < MaxCalls
  /\ \E args \in StdioArgs :
       LET r == stdioHandleValidateConfig(stdio.config, args)
           repeat == stdio.calls > 0 /\ args = stdio.args
       IN stdio' = [stdio EXCEPT !.called = TRUE,
                                 !.args = args, !.sent = r.sent, !.result = r.result,
                                 !.escaped = FALSE,
                                 !.phase = IF r.awaiting THEN "awaiting" ELSE "idle",
                                 !.answer = NoAnswer,
                                 !.calls = @ + 1, !.posted = @ + Len(r.sent),
                                 !.repeat = repeat,
                                 !.prev = IF repeat
                                          THEN [kept |-> TRUE, answer |-> stdio.answer,
                                                result |-> stdio.result,
                                                between |-> stdio.other.op # "none"]
                                          ELSE NoPrev,
                                 !.other = NoOther]
  /\ UNCHANGED <<httpVars, isoVars, buildVars, bootVars, flightVars, bothVars>>

\* the promise of the post settles
PostSettles ==
  /\ stdio.phase = "awaiting"
  /\ \E answer \in StdioAnswers :
       stdio' = [stdio EXCEPT !.phase = "settled", !.answer = answer,
                              !.prev = IF @.answer = answer THEN @ ELSE NoPrev]
  /\ UNCHANGED <<httpVars, isoVars, buildVars, bootVars, flightVars, bothVars>>

\* a handler that turns down a call repeating the arguments of the one
\* before it
ValidateConfigResumes_rejectsRepeat ==
  /\ stdio.phase = "settled"
  /\ LET r == stdioValidateReply(stdio.answer)
     IN stdio' = [stdio EXCEPT !.phase = "idle",
                               !.result = IF stdio.repeat
                                          THEN ValidationError("Validation Error: duplicate request")
                                          ELSE IF r.threw THEN stdioToolError(r.message)
                                          ELSE r.result]
  /\ UNCHANGED <<httpVars, isoVars, buildVars, bootVars, flightVars, bothVars>>

\* a handler that goes on only when the post resolved, with nothing attached
\* to its rejection
ValidateConfigResumes_resolvedOnly ==
  /\ stdio.phase = "settled"
  /\ stdio.answer.kind = "2xx"
  /\ LET r == stdioValidateReply(stdio.answer)
     IN stdio' = [stdio EXCEPT !.phase = "idle",
                               !.result = IF r.threw THEN stdioToolError(r.message)
                                          ELSE r.result]
  /\ UNCHANGED <<httpVars, isoVars, buildVars, bootVars, flightVars, bothVars>>

\* the handler resumes after the await and returns; what it throws is
\* caught by the CallToolRequestSchema handler
ValidateConfigResumes ==
  /\ stdio.phase = "settled"
  /\ LET r == stdioValidateReply(stdio.answer)
     IN stdio' = [stdio EXCEPT !.phase = "idle",
                               !.result = IF r.threw THEN stdioToolError(r.message)
                                          ELSE r.result]
  /\ UNCHANGED <<httpVars, isoVars, buildVars, bootVars, flightVars, bothVars>>

\* a tools/call request for a tool without arguments, or with a name that is
\* no tool, arrives and is answered
CallOtherTool ==
  /\ stdio.phase = "idle"
  /\ \E name \in {"get_image_schema", "no_such_tool"} :
       stdio' = [stdio EXCEPT !.other = [op |-> name, result |-> stdioCallTool(name),
                                         escaped |-> FALSE]]
  /\ UNCHANGED <<httpVars, isoVars, buildVars, bootVars, flightVars, bothVars>>

\* a resources/read request arrives and is answered
ReadResource ==
  /\ stdio.phase = "idle"
  /\ \E uri \in ResourceUris :
       LET r == stdioReadResource(uri)
       IN stdio' = [stdio EXCEPT !.other = [op |-> uri, result |-> r.result,
                                            escaped |-> r.threw]]
  /\ UNCHANGED <<httpVars, isoVars, buildVars, bootVars, flightVars, bothVars>>

NextStdio ==
  \/ ValidateConfig
  \/ PostSettles
  \/ ValidateConfigResumes
  \/ CallOtherTool
  \/ ReadResource

SpecStdio == InitSpecStdio /\ [][NextStdio]_vars

\* The stdio process on its event loop: once the promise of the post has
\* settled, the continuation of the async handler is on the microtask queue,
\* and the single thread runs it as soon as the running task ends; no other
\* request is taken in between.
SpecStdioLive == SpecStdio /\ WF_vars(ValidateConfigResumes)

-----------------------------------------------------------------------------
(* SpecBuild: the config builders of the two variants *)

FieldNames ==
  {"width", "height", "layers", "backgroundColor", "format", "quality", "defaults",
   "fps", "clips", "fast", "audioFilePath", "loopAudio", "outputVolume",
   "keepSourceAudio", "clipsAudioVolume", "audioTracks", "audioNorm", "watermark"}

\* the properties the inputSchema of each builder tool lists
Properties(tool) ==
  IF tool = "create_image_config"
  THEN {"width", "height", "backgroundColor", "format", "quality", "defaults", "layers"}
  ELSE {"width", "height", "fps", "format", "fast", "audioFilePath", "loopAudio",
        "outputVolume", "keepSourceAudio", "clipsAudioVolume", "audioTracks",
        "audioNorm", "defaults", "clips"}

\* the properties a builder sets only when they are supplied
OptionalProperties(tool) ==
  IF tool = "create_image_config"
  THEN {"backgroundColor", "format", "quality", "defaults"}
  ELSE {"fast", "audioFilePath", "loopAudio", "outputVolume", "keepSourceAudio",
        "clipsAudioVolume", "audioTracks", "audioNorm", "defaults"}

JsonValues == {Num(0), Num(800), Str(""), Str("webp"), False, JsonNull, Arr(0), Arr(2)}

\* argument bundles: objects with at most MaxFields fields, and no bundle
Bundles ==
  {NoBundle}
  \cup {[present |-> TRUE, fields |-> f] :
         f \in UNION {[d -> JsonValues] :
                        d \in {x \in SUBSET FieldNames : Cardinality(x) <= MaxFields}}}

\* args.f
Field(args, f) == IF f \in DOMAIN args.fields THEN args.fields[f] ELSE Undef

\* a || b
Or(a, b) == IF Truthy(a) THEN a ELSE b

\* v.length > 0
HasLength(v) ==
  \/ v.t = "array" /\ v.n > 0
  \/ v.t = "string" /\ v.text # ""

\* an object as JSON.stringify writes it: keys whose value is undefined are
\* left out
Stringify(object) == [f \in {k \in DOMAIN object : object[k] # Undef} |-> object[f]]

\* the catch of the CallToolRequestSchema handler
ToolError == [isError |-> TRUE, shape |-> "message", type |-> "none", config |-> EmptyMap]

\* handleCreateImageConfig of the stdio variant
stdioHandleCreateImageConfig(args) ==
  LET required == [f \in {"width", "height", "layers"} |->
                     CASE f = "width" -> Or(Field(args, f), Num(1920))
                       [] f = "height" -> Or(Field(args, f), Num(1080))
                       [] OTHER -> Or(Field(args, f), Arr(0))]
      optional == {f \in {"backgroundColor", "format", "quality", "defaults"} :
                     Field(args, f) # Undef}
      value(f) == IF f \in DOMAIN required THEN required[f] ELSE Field(args, f)
  IN IF ~args.present THEN ToolError
     ELSE [isError |-> FALSE, shape |-> "typed", type |-> "image",
           config |-> Stringify([f \in DOMAIN required \cup optional |-> value(f)])]

\* handleCreateVideoConfig of the stdio variant
stdioHandleCreateVideoConfig(args) ==
  LET required == [f \in {"width", "height", "fps", "format", "clips"} |->
                     CASE f = "width" -> Or(Field(args, f), Num(1280))
                       [] f = "height" -> Or(Field(args, f), Num(720))
                       [] f = "fps" -> Or(Field(args, f), Num(25))
                       [] f = "format" -> Or(Field(args, f), Str("mp4"))
                       [] OTHER -> Or(Field(args, f), Arr(0))]
      optional ==
        {f \in {"fast", "loopAudio", "outputVolume", "keepSourceAudio", "clipsAudioVolume"} :
           Field(args, f) # Undef}
        \cup {f \in {"audioFilePath", "audioNorm", "defaults"} : Truthy(Field(args, f))}
        \cup {f \in {"audioTracks"} : Truthy(Field(args, f)) /\ HasLength(Field(args, f))}
      value(f) == IF f \in DOMAIN required THEN required[f] ELSE Field(args, f)
  IN IF ~args.present THEN ToolError
     ELSE [isError |-> FALSE, shape |-> "typed", type |-> "video",
           config |-> Stringify([f \in DOMAIN required \cup optional |-> value(f)])]

\* JSON.stringify(args, null, 2) of an argument bundle, which is undefined
\* when args is
StringifyArgs(args) ==
  IF ~args.present
  THEN [isError |-> FALSE, shape |-> Undefined, type |-> "none", config |-> EmptyMap]
  ELSE [isError |-> FALSE, shape |-> "bare", type |-> "none",
        config |-> Stringify(args.fields)]

\* handleCreateImageConfig of the HTTP variant
httpHandleCreateImageConfig(args) == StringifyArgs(args)

\* handleCreateVideoConfig of the HTTP variant
httpHandleCreateVideoConfig(args) == StringifyArgs(args)

InitSpecBuild ==
  /\ InitHttp
  /\ pair = InitPair
  /\ stdio = InitStdio(Undefined)
  /\ \E args \in Bundles : build = InitBuild(args)
  /\ boot = InitBoot("none", NoFile, NoFile)
  /\ flight = InitFlight
  /\ both = InitBoth("kA")

\* a tools/call request for create_image_config arrives at the stdio process
StdioCreateImageConfig ==
  /\ build' = [build EXCEPT !.variant = "stdio", !.tool = "create_image_config",
                            !.result = stdioHandleCreateImageConfig(build.args)]
  /\ UNCHANGED <<httpVars, isoVars, stdioVars, bootVars, flightVars, bothVars>>

\* a tools/call request for create_video_config arrives at the stdio process
StdioCreateVideoConfig ==
  /\ build' = [build EXCEPT !.variant = "stdio", !.tool = "create_video_config",
                            !.result = stdioHandleCreateVideoConfig(build.args)]
  /\ UNCHANGED <<httpVars, isoVars, stdioVars, bootVars, flightVars, bothVars>>

\* a tools/call request for create_image_config reaches an HTTP session's registry
HttpCreateImageConfig ==
  /\ build' = [build EXCEPT !.variant = "http", !.tool = "create_image_config",
                            !.result = httpHandleCreateImageConfig(build.args)]
  /\ UNCHANGED <<httpVars, isoVars, stdioVars, bootVars, flightVars, bothVars>>

\* a tools/call request for create_video_config reaches an HTTP session's registry
HttpCreateVideoConfig ==
  /\ build' = [build EXCEPT !.variant = "http", !.tool = "create_video_config",
                            !.result = httpHandleCreateVideoConfig(build.args)]
  /\ UNCHANGED <<httpVars, isoVars, stdioVars, bootVars, flightVars, bothVars>>

NextBuild ==
  \/ StdioCreateImageConfig
  \/ StdioCreateVideoConfig
  \/ HttpCreateImageConfig
  \/ HttpCreateVideoConfig

SpecBuild == InitSpecBuild /\ [][NextBuild]_vars

-----------------------------------------------------------------------------
(* SpecSchema: a process of either variant from the first statement of its *)
(* module: the schema documents are read, the server starts, and schema    *)
(* tools and schema resources are served.                                  *)

Variants == {"http", "stdio"}

\* readFileSync(path, 'utf-8'): the text of the file, or throws ENOENT
readFileSync(file) == [threw |-> file = NoFile, text |-> file]

\* a loader that puts an empty document in the place of one it cannot read
LoadSchema_lenient(file) ==
  LET read == readFileSync(file)
      parsed == JSONparse(read.text)
  IN IF read.threw \/ parsed.threw
     THEN [threw |-> FALSE, schema |-> Json("object", 0, "{}")]
     ELSE [threw |-> FALSE, schema |-> Json(parsed.value.t, 0, parsed.value.text)]

\* JSON.parse(readFileSync(join(__dirname, '..', 'schemas', ...), 'utf-8'))
LoadSchema(file) ==
  LET read == readFileSync(file)
      parsed == JSONparse(read.text)
  IN IF read.threw \/ parsed.threw
     THEN [threw |-> TRUE, schema |-> Undef]
     ELSE [threw |-> FALSE, schema |-> Json(parsed.value.t, 0, parsed.value.text)]

\* handleGetImageSchema and handleGetVideoSchema of the HTTP variant
httpHandleGetImageSchema(b) == JSONstringify(b.imageSchema)
httpHandleGetVideoSchema(b) == JSONstringify(b.videoSchema)

\* handleGetImageSchema and handleGetVideoSchema of the stdio variant
stdioHandleGetImageSchema(b) == JSONstringify(b.imageSchema)
stdioHandleGetVideoSchema(b) == JSONstringify(b.videoSchema)

SchemaUris == {"schema://image", "schema://video"}

\* a resource handler that writes the document on one line
httpReadSchema_compact(b, uri) ==
  CASE uri = "schema://image" -> [threw |-> FALSE, text |-> b.imageSchema.text]
    [] uri = "schema://video" -> [threw |-> FALSE, text |-> b.videoSchema.text]
    [] OTHER -> [threw |-> TRUE, text |-> Undefined]

\* the ReadResourceRequestSchema handler of the HTTP variant
httpReadSchema(b, uri) ==
  CASE uri = "schema://image" -> [threw |-> FALSE, text |-> JSONstringify(b.imageSchema)]
    [] uri = "schema://video" -> [threw |-> FALSE, text |-> JSONstringify(b.videoSchema)]
    [] OTHER -> [threw |-> TRUE, text |-> Undefined]

\* the ReadResourceRequestSchema handler of the stdio variant
stdioReadSchema(b, uri) ==
  CASE uri = "schema://image" -> [threw |-> FALSE, text |-> JSONstringify(b.imageSchema)]
    [] uri = "schema://video" -> [threw |-> FALSE, text |-> JSONstringify(b.videoSchema)]
    [] OTHER -> [threw |-> TRUE, text |-> Undefined]

\* the sessions a request can belong to: those of the HTTP variant, and the
\* one channel of the stdio variant
SessionsOf(variant) == IF variant = "http" THEN SessionIds ELSE {NoSid}

InitSpecSchema ==
  /\ InitHttp
  /\ pair = InitPair
  /\ stdio = InitStdio(Undefined)
  /\ build = InitBuild(NoBundle)
  /\ \E variant \in Variants, image \in SchemaFiles, video \in SchemaFiles :
       boot = InitBoot(variant, image, video)
  /\ flight = InitFlight
  /\ both = InitBoth("kA")

\* const imageSchema = JSON.parse(readFileSync(...)): an exception at the top
\* level of the module ends the process
LoadImageSchema ==
  /\ boot.pc = "load_image"
  /\ LET r == LoadSchema(boot.files.image)
     IN boot' = IF r.threw THEN [boot EXCEPT !.pc = "aborted"]
                ELSE [boot EXCEPT !.pc = "load_video", !.imageSchema = r.schema]
  /\ UNCHANGED <<httpVars, isoVars, stdioVars, buildVars, flightVars, bothVars>>

\* const videoSchema = JSON.parse(readFileSync(...))
LoadVideoSchema ==
  /\ boot.pc = "load_video"
  /\ LET r == LoadSchema(boot.files.video)
     IN boot' = IF r.threw THEN [boot EXCEPT !.pc = "aborted"]
                ELSE [boot EXCEPT !.pc = "start", !.videoSchema = r.schema]
  /\ UNCHANGED <<httpVars, isoVars, stdioVars, buildVars, flightVars, bothVars>>

\* app.listen(config.port) of the HTTP variant; new JsoncutMCPServer() and
\* server.run(), which connects the stdio transport, of the stdio variant
Listen ==
  /\ boot.pc = "start"
  /\ boot' = [boot EXCEPT !.pc = "serving"]
  /\ UNCHANGED <<httpVars, isoVars, stdioVars, buildVars, flightVars, bothVars>>

\* tools/call get_image_schema or get_video_schema
GetSchemaTool ==
  /\ boot.pc = "serving"
  /\ \E name \in {"get_image_schema", "get_video_schema"}, session \in SessionsOf(boot.variant) :
       LET text == CASE boot.variant = "http" /\ name = "get_image_schema" ->
                          httpHandleGetImageSchema(boot)
                     [] boot.variant = "http" /\ name = "get_video_schema" ->
                          httpHandleGetVideoSchema(boot)
                     [] boot.variant = "stdio" /\ name = "get_image_schema" ->
                          stdioHandleGetImageSchema(boot)
                     [] OTHER -> stdioHandleGetVideoSchema(boot)
       IN boot' = [boot EXCEPT !.accepted = TRUE,
                               !.served = [op |-> name, session |-> session,
                                           text |-> text, threw |-> FALSE]]
  /\ UNCHANGED <<httpVars, isoVars, stdioVars, buildVars, flightVars, bothVars>>

\* resources/read
ReadSchemaResource ==
  /\ boot.pc = "serving"
  /\ \E uri \in SchemaUris \cup {"schema://audio"}, session \in SessionsOf(boot.variant) :
       LET r == IF boot.variant = "http" THEN httpReadSchema(boot, uri)
                ELSE stdioReadSchema(boot, uri)
       IN boot' = [boot EXCEPT !.accepted = TRUE,
                               !.served = [op |-> uri, session |-> session,
                                           text |-> r.text, threw |-> r.threw]]
  /\ UNCHANGED <<httpVars, isoVars, stdioVars, buildVars, flightVars, bothVars>>

\* a tools/call of a builder or of validate_config: none of them has the
\* schema documents in its text
CallUnrelatedTool ==
  /\ boot.pc = "serving"
  /\ \E name \in {"create_image_config", "create_video_config", "validate_config"},
        session \in SessionsOf(boot.variant) :
       boot' = [boot EXCEPT !.accepted = TRUE,
                            !.served = [op |-> name, session |-> session,
                                        text |-> Undefined, threw |-> FALSE]]
  /\ UNCHANGED <<httpVars, isoVars, stdioVars, buildVars, flightVars, bothVars>>

NextSchema ==
  \/ LoadImageSchema
  \/ LoadVideoSchema
  \/ Listen
  \/ GetSchemaTool
  \/ ReadSchemaResource
  \/ CallUnrelatedTool

SpecSchema == InitSpecSchema /\ [][NextSchema]_vars

-----------------------------------------------------------------------------
(* SpecFlight: the HTTP process with validation calls that stay suspended  *)
(* on their post while other requests are handled. Transports answer;     *)
(* their failures are the matter of Spec.                                  *)

InitializeBody == [NoBody EXCEPT !.method = "initialize"]

\* the requests that are answered without a network call
PlainBodies ==
  [method : {"tools/call"}, name : {"create_image_config", "no_such_tool"}, args : {NoArgs}]

\* the arguments of the validation calls sent: none, which fails before the
\* post, and a bundle without a key of its own
FlightArgs == {a \in HttpArgs : a.apiKey = Undefined}

\* the x-api-key headers of the initialize requests sent
FlightKeys == {"kA", Undefined}

\* what the remote service does with the validation requests sent
FlightAnswers == {"valid", "neterr"}

\* the id randomUUID() returns next in this process
FlightUUID ==
  IF flight.used = SessionIds THEN NoSid
  ELSE CHOOSE n \in SessionIds \ flight.used : \A m \in SessionIds \ flight.used : n <= m

\* what is kept of the event handled last: its kind, the session it bears,
\* the status and registry of the answer, whether the tool result is an
\* error, how many calls were suspended when it was handled, the call it
\* started or ended, and whether its answer went out to a client
FlightEvent(kind, sid, res, call, delivered) ==
  [kind |-> kind, sid |-> sid, status |-> res.status, server |-> res.server,
   isError |-> res.result.isError, during |-> Cardinality(flight.pending),
   call |-> call, delivered |-> delivered]

\* the continuation of a suspended call that stores the session again
Resume_restoresSession(p, call, answer) ==
  [proc |-> [p EXCEPT !.sessions =
               (call.sid :> [transport |-> call.transport, server |-> call.server]) @@ @,
                      !.transports =
               @ @@ (call.transport :> [FreshTransport(call.sid) EXCEPT
                                          !.server = call.server, !.initialized = TRUE]),
                      !.servers = @ @@ (call.server :> [apiKey |-> call.key])],
   delivered |-> call.transport \in DOMAIN p.transports,
   logged |-> FALSE,
   result |-> validateReply(answer)]

\* handleValidateConfig from its await on, and what the SDK does with the
\* result: it is sent on the transport of the call; when that transport has
\* closed the send fails and the failure goes to server.onerror, which logs it
Resume(p, call, answer) ==
  [proc |-> p,
   delivered |-> call.transport \in DOMAIN p.transports,
   logged |-> call.transport \notin DOMAIN p.transports,
   result |-> validateReply(answer)]

InitSpecFlight ==
  /\ InitHttp
  /\ pair = InitPair
  /\ stdio = InitStdio(Undefined)
  /\ build = InitBuild(NoBundle)
  /\ boot = InitBoot("none", NoFile, NoFile)
  /\ flight = InitFlight
  /\ both = InitBoth("kA")

\* POST /mcp without session id: an initialize request with or without key
FlightInitialize(apiKey) ==
  /\ LET r == PostMcp(flight.proc, NoSid, apiKey, InitializeBody, "ok", FALSE, "neterr",
                      FlightUUID)
     IN /\ r.uuid => FlightUUID # NoSid
        /\ flight' = [flight EXCEPT
                        !.proc = Reachable(r.proc),
                        !.used = IF r.uuid THEN @ \cup {FlightUUID} ELSE @,
                        !.last = FlightEvent("request", NoSid, r.res, 0, TRUE)]
  /\ UNCHANGED <<httpVars, isoVars, stdioVars, buildVars, bootVars, bothVars>>

\* a handler that takes a request of a session only when no call of that
\* session is suspended
FlightRequest_serialized(sid, body) ==
  /\ \A c \in flight.pending : c.sid # sid
  /\ LET r == PostMcp(flight.proc, sid, Undefined, body, "ok", FALSE, "neterr", NoSid)
     IN flight' = [flight EXCEPT !.proc = Reachable(r.proc),
                                 !.last = FlightEvent("request", sid, r.res, 0, TRUE)]
  /\ UNCHANGED <<httpVars, isoVars, stdioVars, buildVars, bootVars, bothVars>>

\* POST /mcp with a session id and a request that needs no network call
FlightRequest(sid, body) ==
  /\ LET r == PostMcp(flight.proc, sid, Undefined, body, "ok", FALSE, "neterr", NoSid)
     IN flight' = [flight EXCEPT !.proc = Reachable(r.proc),
                                 !.last = FlightEvent("request", sid, r.res, 0, TRUE)]
  /\ UNCHANGED <<httpVars, isoVars, stdioVars, buildVars, bootVars, bothVars>>

\* POST /mcp with the id of a stored session and a validate_config call: the
\* handler runs until it returns or awaits the post
FlightValidate(sid, args) ==
  /\ sid \in DOMAIN flight.proc.sessions
  /\ flight.started < MaxFlights
  /\ LET session == flight.proc.sessions[sid]
         server == flight.proc.servers[session.server]
         v == handleValidateConfig(server, args)
         call == [id |-> flight.started + 1, sid |-> sid,
                  transport |-> session.transport, server |-> session.server,
                  key |-> v.key]
         res == [NoRes EXCEPT !.status = 200, !.server = session.server,
                              !.result = v.result]
     IN flight' = IF v.suspended
                  THEN [flight EXCEPT !.pending = @ \cup {call}, !.started = @ + 1,
                                      !.last = FlightEvent("suspended", sid, res, call.id, FALSE)]
                  ELSE [flight EXCEPT !.started = @ + 1,
                                      !.last = FlightEvent("request", sid, res, 0, TRUE)]
  /\ UNCHANGED <<httpVars, isoVars, stdioVars, buildVars, bootVars, bothVars>>

\* DELETE /mcp
FlightDelete(sid) ==
  /\ \E o \in {"ok", "rejected"} :
       LET r == DeleteMcp(flight.proc, sid, o)
       IN flight' = [flight EXCEPT !.proc = Reachable(r.proc),
                                   !.last = FlightEvent("delete", sid, r.res, 0, TRUE)]
  /\ UNCHANGED <<httpVars, isoVars, stdioVars, buildVars, bootVars, bothVars>>

\* the transport of a stored session closes without a DELETE request
FlightClose(sid) ==
  /\ sid \in DOMAIN flight.proc.sessions
  /\ flight' = [flight EXCEPT
                  !.proc = Reachable(TransportClose(@, @.sessions[sid].transport)),
                  !.last = FlightEvent("close", sid, NoRes, 0, TRUE)]
  /\ UNCHANGED <<httpVars, isoVars, stdioVars, buildVars, bootVars, bothVars>>

\* the post of a suspended call settles and its handler runs to the end
FlightSettles(call, answer) ==
  /\ call \in flight.pending
  /\ LET r == Resume(flight.proc, call, answer)
         res == [NoRes EXCEPT !.status = 200, !.server = call.server, !.result = r.result]
     IN flight' = [flight EXCEPT
                     !.proc = Reachable(r.proc),
                     !.pending = @ \ {call},
                     !.logged = @ \/ r.logged,
                     !.last = FlightEvent("settled", call.sid, res, call.id, r.delivered)]
  /\ UNCHANGED <<httpVars, isoVars, stdioVars, buildVars, bootVars, bothVars>>

NextFlight ==
  \/ \E apiKey \in FlightKeys : FlightInitialize(apiKey)
  \/ \E sid \in SessionIds, body \in PlainBodies : FlightRequest(sid, body)
  \/ \E sid \in SessionIds, args \in FlightArgs : FlightValidate(sid, args)
  \/ \E sid \in SessionIds : FlightDelete(sid)
  \/ \E sid \in SessionIds : FlightClose(sid)
  \/ \E call \in flight.pending, answer \in FlightAnswers : FlightSettles(call, answer)

SpecFlight == InitSpecFlight /\ [][NextFlight]_vars

-----------------------------------------------------------------------------
(* SpecBoth: a registry of the stdio variant and a registry of an HTTP     *)
(* session, constructed with the same credential, are given the same tool  *)
(* call, and the remote API answers both alike. A run is one call: no tool  *)
(* handler of either variant assigns to anything that outlives the call,   *)
(* so every call finds the registries as construction left them.           *)

\* handleValidateConfig of the HTTP variant up to the awaited post, on the
\* arguments as a client sends them: type and config go out as they came
httpHandleValidateConfig(thisApiKey, args) ==
  LET fail(message) ==
        [awaiting |-> FALSE, sent |-> <<>>,
         result |-> ValidationError("Validation Error: " \o message \o "\n")]
      k == getApiKey(args.apiKey, thisApiKey)
  IN IF ~args.present
     THEN fail("Cannot destructure property 'type' of 'args' as it is undefined.")
     ELSE IF k.threw
     THEN fail("API key is required. Provide X-API-Key header when connecting.")
     ELSE [awaiting |-> TRUE,
           sent |-> axiosPost([key |-> k.key, type |-> args.type, config |-> args.config]),
           result |-> NoStdioResult]

\* handleValidateConfig of the HTTP variant from the point where the awaited
\* post settles: a 2xx body is returned whole as JSON text, whatever it says;
\* a rejected post becomes an error result
httpValidateReply(answer) ==
  LET data == answer.data
      errorMessage ==
        IF answer.kind = "non2xx" /\ data.t # Null /\ ~Falsy(data.message) THEN data.message
        ELSE IF answer.message # "" THEN answer.message
        ELSE "Validation failed"
      errorDetails ==
        IF answer.kind = "non2xx" /\ data.t # Null /\ data.errors.present
        THEN "response.data.errors" ELSE ""
  IN IF answer.kind = "2xx"
     THEN [isError |-> FALSE, text |-> "response.data",
           valid |-> IF data.t # Null /\ data.hasData
                     THEN (IF data.isValid THEN "yes" ELSE "no") ELSE "none",
           tokens |-> IF data.t # Null THEN data.estimatedTokens ELSE Undef,
           errors |-> IF data.t # Null THEN ErrorLines(data.errors).lines ELSE <<>>,
           resources |-> IF data.t # Null THEN ResourceLines(data.detectedResources)
                         ELSE <<>>]
     ELSE ValidationError("Validation Error: " \o errorMessage \o "\n" \o errorDetails)

\* what a builder's result says
BuilderOutcome(result) ==
  [NoOutcome EXCEPT !.isError = result.isError, !.config = result.config]

\* what a validation result says, and what was posted to get it
ValidateOutcome(result, sent) ==
  [NoOutcome EXCEPT !.isError = result.isError, !.valid = result.valid,
                    !.errors = result.errors, !.sent = sent]

\* what the result of a schema tool or of an unknown tool says
OtherOutcome(isError, document) ==
  [NoOutcome EXCEPT !.isError = isError, !.document = document]

\* the CallToolRequestSchema handler of the stdio variant
stdioCallToolBoth(b, name, bundle, args, answer) ==
  CASE name = "create_image_config" -> BuilderOutcome(stdioHandleCreateImageConfig(bundle))
    [] name = "create_video_config" -> BuilderOutcome(stdioHandleCreateVideoConfig(bundle))
    [] name = "validate_config" ->
         LET v == stdioHandleValidateConfig(b.config, args)
             r == stdioValidateReply(answer)
         IN IF ~v.awaiting THEN ValidateOutcome(v.result, v.sent)
            ELSE IF r.threw THEN ValidateOutcome(stdioToolError(r.message), v.sent)
            ELSE ValidateOutcome(r.result, v.sent)
    [] name \in {"get_image_schema", "get_video_schema"} ->
         OtherOutcome(FALSE, stdioCallTool(name).text)
    [] OTHER -> OtherOutcome(TRUE, "none")

\* the CallToolRequestSchema handler of the HTTP variant
httpCallToolBoth(b, name, bundle, args, answer) ==
  CASE name = "create_image_config" -> BuilderOutcome(httpHandleCreateImageConfig(bundle))
    [] name = "create_video_config" -> BuilderOutcome(httpHandleCreateVideoConfig(bundle))
    [] name = "validate_config" ->
         LET v == httpHandleValidateConfig(b.apiKey, args)
         IN IF ~v.awaiting THEN ValidateOutcome(v.result, v.sent)
            ELSE ValidateOutcome(httpValidateReply(answer), v.sent)
    [] name = "get_image_schema" -> OtherOutcome(FALSE, "imageSchema")
    [] name = "get_video_schema" -> OtherOutcome(FALSE, "videoSchema")
    [] OTHER -> OtherOutcome(TRUE, "none")

\* one tools/call request, handled by both registries
BothCall(name, bundle, args, answer) ==
  both' = [both EXCEPT !.name = name, !.bundle = bundle, !.args = args,
                       !.answer = answer,
                       !.stdio = stdioCallToolBoth(both, name, bundle, args, answer),
                       !.http = httpCallToolBoth(both, name, bundle, args, answer)]

InitSpecBoth ==
  /\ InitHttp
  /\ pair = InitPair
  /\ stdio = InitStdio(Undefined)
  /\ build = InitBuild(NoBundle)
  /\ boot = InitBoot("none", NoFile, NoFile)
  /\ flight = InitFlight
  /\ both \in {InitBoth(cred) : cred \in Keys}

\* create_image_config is called with a bundle
BothCreateImageConfig ==
  /\ both.name = "none"
  /\ \E bundle \in Bundles : BothCall("create_image_config", bundle, NoStdioArgs, NoAnswer)
  /\ UNCHANGED <<httpVars, isoVars, stdioVars, buildVars, bootVars, flightVars>>

\* create_video_config is called with a bundle
BothCreateVideoConfig ==
  /\ both.name = "none"
  /\ \E bundle \in Bundles : BothCall("create_video_config", bundle, NoStdioArgs, NoAnswer)
  /\ UNCHANGED <<httpVars, isoVars, stdioVars, buildVars, bootVars, flightVars>>

\* validate_config is called; the remote API answers whichever registry
\* posts a request
BothValidateConfig ==
  /\ both.name = "none"
  /\ \E args \in StdioArgs :
       \E answer \in IF \/ stdioHandleValidateConfig(both.config, args).awaiting
                        \/ httpHandleValidateConfig(both.apiKey, args).awaiting
                     THEN StdioAnswers ELSE {NoAnswer} :
         BothCall("validate_config", NoBundle, args, answer)
  /\ UNCHANGED <<httpVars, isoVars, stdioVars, buildVars, bootVars, flightVars>>

\* one of the schema tools is called
BothGetSchema ==
  /\ both.name = "none"
  /\ \E name \in {"get_image_schema", "get_video_schema"} :
       BothCall(name, NoBundle, NoStdioArgs, NoAnswer)
  /\ UNCHANGED <<httpVars, isoVars, stdioVars, buildVars, bootVars, flightVars>>

\* a tool neither registry knows is called
BothUnknownTool ==
  /\ both.name = "none"
  /\ BothCall("get_audio_schema", NoBundle, NoStdioArgs, NoAnswer)
  /\ UNCHANGED <<httpVars, isoVars, stdioVars, buildVars, bootVars, flightVars>>

NextBoth ==
  \/ BothCreateImageConfig
  \/ BothCreateVideoConfig
  \/ BothValidateConfig
  \/ BothGetSchema
  \/ BothUnknownTool

SpecBoth == InitSpecBoth /\ [][NextBoth]_vars

-----------------------------------------------------------------------------
(* Claims about the HTTP process *)

\* the credential the registry of a stored session carries
CredentialOf(sid) == proc.servers[proc.sessions[sid].server].apiKey

\* the request handled last was routed to a stored session
Routed == last.kind = "request" /\ last.live /\ last.server # 0

\* C1 as amended: in every reachable state, a POST bearing the id of a stored
\* session, whatever x-api-key header and whatever body it has, is answered
\* exactly as the same request without the header, is handed to that
\* session's own registry, which carries the credential the session was
\* created with, and the validation request it sends carries the apiKey
\* argument of the call if that is non-empty and the session's credential
\* otherwise.
C1_RoutedWithSessionCredential ==
  \A sid \in DOMAIN proc.sessions, key \in Creds, body \in Bodies :
    LET r == PostMcp(proc, sid, key, body, "ok", FALSE, "valid", NoSid)
        C == issuedKey[sid]
    IN /\ r = PostMcp(proc, sid, Undefined, body, "ok", FALSE, "valid", NoSid)
       /\ r.res.server # 0 =>
            /\ r.res.server = proc.sessions[sid].server
            /\ r.res.cred = C
            /\ (body.name = "validate_config" /\ body.args.present) =>
                 r.res.outKey = (IF Falsy(body.args.apiKey) THEN C ELSE body.args.apiKey)

\* a validation call of a session created with kA was handled while the
\* request carried another key in its header, and went out with kA
C1_Witness ==
  /\ Routed
  /\ last.outKey = issuedKey[last.sid]
  /\ ~Falsy(last.key) /\ last.key # issuedKey[last.sid]

\* C1 as stated: every outbound validation call made for a stored session
\* carries the credential the session was created with
C1_OutboundAlwaysSessionKey ==
  (Routed /\ last.outKey # Undefined) => last.outKey = issuedKey[last.sid]

\* C2 as stated: a request bearing a session id that is not stored (never
\* issued, or terminated) is answered with the invalid-session error and
\* leaves the sessions map as it was
C2_UnknownSessionRejected ==
  (last.kind = "request" /\ last.sid # NoSid /\ ~last.live) =>
    (last.error = "invalid_session" /\ ~last.changed)

MissingCredentialInit(e) ==
  e.kind = "request" /\ e.method = "POST" /\ e.sid = NoSid /\ Falsy(e.key) /\ e.init

\* C3 as stated: an initialize request without session header and without
\* credential is answered with a non-success status, stores no session and
\* issues no id; and the request that follows it, if it bears an id that was
\* never issued, is answered with the invalid-session error and stores nothing
C3_RejectedInitializeLeavesNoSession ==
  [][ /\ MissingCredentialInit(last') =>
           (last'.status >= 400 /\ ~last'.changed /\ issued' = issued)
      /\ (MissingCredentialInit(last) /\ last'.kind = "request"
           /\ last'.sid # NoSid /\ ~last'.known) =>
           (last'.error = "invalid_session" /\ ~last'.changed) ]_vars

\* C4 as stated: every stored session has completed its handshake, and a
\* session-creation attempt answered with a non-success status leaves the
\* sessions map as it was
C4_StoredOnlyAfterHandshake ==
  /\ \A sid \in DOMAIN proc.sessions :
       proc.transports[proc.sessions[sid].transport].initialized
  /\ (last.kind = "request" /\ last.method = "POST" /\ ~last.live /\ last.status >= 400) =>
       ~last.changed

\* C5 as stated: once a DELETE for a stored session has been handled, or its
\* transport has closed, the session is no longer stored, whether or not the
\* transport's handling of the DELETE failed; and a request bearing the id
\* of a terminated session is rejected
C5_TerminatedSessionGone ==
  /\ (last.kind = "request" /\ last.method = "DELETE" /\ last.live) =>
       last.sid \notin DOMAIN proc.sessions
  /\ last.kind = "close" => last.sid \notin DOMAIN proc.sessions
  /\ (last.kind = "request" /\ last.known /\ ~last.live) => last.status >= 400

\* C6: in every reachable state the registry of each stored session carries
\* the credential that was presented when the session was created
C6_CredentialFixed ==
  \A sid \in DOMAIN proc.sessions : CredentialOf(sid) = issuedKey[sid]

\* two sessions created with different keys are stored, and a request with
\* a foreign key in its header has just been served on one of them
C6_Witness ==
  /\ \E a, b \in DOMAIN proc.sessions : issuedKey[a] # issuedKey[b]
  /\ Routed /\ last.sid \in DOMAIN proc.sessions
  /\ ~Falsy(last.key) /\ last.key # issuedKey[last.sid]

\* C7: in every reachable state each stored session has the transport that
\* was made for its id, that transport delivers to the session's own registry
\* (or to none yet), and no two stored sessions have the same registry or the
\* same transport
C7_OneRegistryPerSession ==
  \A a, b \in DOMAIN proc.sessions :
    /\ proc.transports[proc.sessions[a].transport].sessionId = a
    /\ proc.transports[proc.sessions[a].transport].server \in {0, proc.sessions[a].server}
    /\ a # b => /\ proc.sessions[a].server # proc.sessions[b].server
                /\ proc.sessions[a].transport # proc.sessions[b].transport

\* two sessions are stored and both have completed their handshake
C7_Witness ==
  \E a, b \in DOMAIN proc.sessions :
    /\ a # b
    /\ proc.transports[proc.sessions[a].transport].initialized
    /\ proc.transports[proc.sessions[b].transport].initialized

\* C8: in two runs of the process in which A sends the same requests and B
\* sends whatever it likes, with whatever credential, A gets the same answers
\* (status, error, tool result), A's registry carries the same credential,
\* A's outbound validation calls carry the same key, and A's session is in
\* the same condition
C8_SessionIsolation ==
  /\ pair.outLeft = pair.outRight
  /\ View(pair.left, SidA) = View(pair.right, SidA)

\* A and B are both stored in both runs, B with a different credential in
\* each, one of them A's own, and A has just had a validation call made
\* with its own credential
C8_Witness ==
  /\ View(pair.left, SidA).initialized
  /\ View(pair.left, SidB).initialized /\ View(pair.right, SidB).initialized
  /\ View(pair.left, SidB).cred # View(pair.right, SidB).cred
  /\ pair.outLeft.outKey = View(pair.left, SidA).cred

\* the request handled last was a tool call on a stored session that came
\* back as an error result
ToolCallFailed ==
  /\ last.kind = "request" /\ last.method = "POST" /\ last.live
  /\ last.server # 0
  /\ last.isError

\* C21: when a tool call on a stored session has come back as an error
\* result (unknown tool, unusable arguments, a validation the remote service
\* refused or that never reached it), the sessions map is what it was before
\* the call, the session is still stored with the registry that handled the
\* call and with its credential, and the next request bearing the
\* session's id is handed to that registry.
C21_ErrorLeavesSession ==
  ToolCallFailed =>
    /\ ~last.changed
    /\ last.sid \in DOMAIN proc.sessions
    /\ proc.sessions[last.sid].server = last.server
    /\ CredentialOf(last.sid) = last.cred
    /\ \A body \in SentBodies :
         body.method = "tools/call" =>
           PostMcp(proc, last.sid, Undefined, body, "ok", FALSE, "valid", NoSid).res.server
             = last.server

\* a validation call of a stored session got no response from the remote
\* service and came back as an error result, with another session stored
C21_Witness ==
  /\ ToolCallFailed
  /\ last.outKey # Undefined
  /\ Cardinality(DOMAIN proc.sessions) = 2

\* the registries something in the process still refers to: those of the
\* stored sessions, those the transports of stored sessions deliver to, and
\* those whose SIGINT listener is registered on the process
Retained ==
  {proc.sessions[x].server : x \in DOMAIN proc.sessions}
  \cup ({proc.transports[t].server : t \in DOMAIN proc.transports} \ {0})
  \cup proc.sigint

\* C25 as stated: every registry the process still refers to is the registry
\* of a stored session, so there are never more retained registries than
\* stored sessions
C25_TerminatedSessionReleased ==
  /\ Retained \subseteq {proc.sessions[x].server : x \in DOMAIN proc.sessions}
  /\ Cardinality(Retained) <= Cardinality(DOMAIN proc.sessions)

\* a suspended call whose session is no longer stored
Orphaned(call) == call.sid \notin DOMAIN flight.proc.sessions

C27_RequestsNotSerialized ==
  /\ [](\A sid \in DOMAIN flight.proc.sessions :
          /\ \A body \in PlainBodies :
               /\ ENABLED FlightRequest(sid, body)
               /\ PostMcp(flight.proc, sid, Undefined, body, "ok", FALSE, "neterr",
                          NoSid).res.server = flight.proc.sessions[sid].server
          /\ flight.started < MaxFlights =>
               \A args \in FlightArgs : ENABLED FlightValidate(sid, args))
  /\ [](flight.used # SessionIds => ENABLED FlightInitialize("kA"))
  /\ [][flight'.last.kind = "request" => flight'.pending = flight.pending]_vars

\* while two sessions each have a validation call suspended, a request of
\* one of them has been answered
C27_Witness ==
  /\ flight.last.kind = "request"
  /\ flight.last.status = 200
  /\ flight.last.during = 2
  /\ \E c, d \in flight.pending : c.sid = flight.last.sid /\ d.sid # flight.last.sid

-----------------------------------------------------------------------------
(* Claims about the stdio process *)

\* the call handled last had no credential of its own and none is configured
NoCredential == stdio.called /\ Falsy(stdio.args.apiKey) /\ Falsy(stdio.config.apiKey)

\* the arguments of the call handled last pass the checks made before the
\* credential is looked for
ArgumentsPass ==
  /\ stdio.args.present
  /\ ~Falsy(stdio.args.type)
  /\ stdio.args.config.t \in {"object", "string"}
  /\ stdio.args.config.t = "string" => ~JSONparse(stdio.args.config.text).threw

\* C9 as amended: a validate call with no credential argument and no
\* configured fallback always ends in an error result and nothing is posted
\* to the remote API; the error is the authentication error when type and
\* config pass the argument checks, and one of the argument errors otherwise
C9_NoCredentialNoCall ==
  NoCredential =>
    /\ stdio.result.isError
    /\ stdio.sent = <<>>
    /\ ArgumentsPass => stdio.result.text = ApiKeyRequired
    /\ ~ArgumentsPass =>
         stdio.result.text \in {CannotDestructure, MissingType, MissingConfig, InvalidJson}

\* a call with well-formed type and config, no credential and no fallback
\* was answered with the authentication error
C9_Witness ==
  NoCredential /\ ArgumentsPass /\ stdio.result.text = ApiKeyRequired

\* C9 as stated: a validate call with no credential argument and no
\* configured fallback always ends in the authentication error and nothing
\* is posted to the remote API
C9_AlwaysAuthenticationError ==
  NoCredential =>
    (stdio.result.isError /\ stdio.result.text = ApiKeyRequired /\ stdio.sent = <<>>)

\* the arguments of a validate call pass every check made before the post:
\* type and config are there, a config string parses, and there is a key
PassesPreChecks(args, cfg) ==
  /\ args.present
  /\ ~Falsy(args.type)
  /\ args.config.t \in {"object", "string"}
  /\ args.config.t = "string" => ~JSONparse(args.config.text).threw
  /\ ~(Falsy(args.apiKey) /\ Falsy(cfg.apiKey))

\* C15: a step that takes in a validate call puts exactly one request on the
\* wire if the call passes the pre-checks and none otherwise, also when the
\* call repeats the arguments of the call before it; and no other step (the
\* post settling, with a failure or not, or the handler resuming) puts any
\* request on the wire. So the number of requests sent is the number of
\* calls that passed the pre-checks.
C15_OneRequestPerCall ==
  [][ /\ stdio'.calls = stdio.calls + 1 =>
           /\ stdio'.posted - stdio.posted =
                (IF PassesPreChecks(stdio'.args, stdio.config) THEN 1 ELSE 0)
           /\ Len(stdio'.sent) = stdio'.posted - stdio.posted
      /\ stdio'.calls = stdio.calls => stdio'.posted = stdio.posted ]_vars

\* a call repeated the arguments of the one before it, both reached the
\* network, and the post of the second ended in an error result
C15_Witness ==
  /\ stdio.repeat
  /\ stdio.calls > 1
  /\ stdio.posted = stdio.calls
  /\ stdio.phase = "idle"
  /\ stdio.result.isError

\* the validate call handled last has come back, its post having settled in
\* the given way
Answered(kind) == stdio.phase = "idle" /\ stdio.answer.kind = kind

StatusLine(answer) == "API Error: " \o answer.status \o " " \o answer.statusText

DetailsLine(body) ==
  IF Truthy(body.details) THEN "\nDetails: " \o JSONstringify(body.details) ELSE ""

C17_TransportFailureCompletes ==
  /\ [](Answered("neterr") =>
         /\ stdio.result.isError
         /\ ~stdio.escaped
         /\ stdio.result.text =
              "Validation Error: " \o (IF stdio.answer.message # "" THEN stdio.answer.message
                                       ELSE "Unknown error occurred"))
  /\ (stdio.phase = "settled" /\ stdio.answer.kind = "neterr") ~> Answered("neterr")

\* a validate call whose connection was refused has come back with an error
\* result
C17_Witness ==
  /\ Answered("neterr")
  /\ stdio.answer.message = "connect ECONNREFUSED"
  /\ stdio.posted > 0
  /\ stdio.result.isError

\* the validate call handled last got a 2xx response that says success and
\* has a data member
AnsweredSuccess ==
  /\ Answered("2xx")
  /\ stdio.answer.data.t = "object"
  /\ stdio.answer.data.success
  /\ stdio.answer.data.hasData

\* C18: turning a successful response into the validation result never
\* raises, whichever of the estimated tokens, the error list, the field of an
\* error, the detected resources and the size of a resource are absent: the
\* call ends in a result that is no error, says whether the configuration is
\* valid, and has one line for every error and every resource of the
\* response, without a field or a size where the response has none.
C18_SuccessMappingNeverRaises ==
  AnsweredSuccess =>
    LET validation == stdio.answer.data
        result == stdio.result
    IN /\ ~result.isError
       /\ ~stdio.escaped
       /\ result.text = "Validation Result:"
       /\ result.valid = (IF validation.isValid THEN "yes" ELSE "no")
       /\ result.tokens = validation.estimatedTokens
       /\ Len(result.errors) = Len(validation.errors.items)
       /\ \A i \in 1..Len(result.errors) :
            /\ result.errors[i].message = validation.errors.items[i].message
            /\ result.errors[i].field = validation.errors.items[i].field
       /\ Len(result.resources) = Len(validation.detectedResources.items)
       /\ \A i \in 1..Len(result.resources) :
            /\ result.resources[i].url = validation.detectedResources.items[i].url
            /\ result.resources[i].size.shown
                 <=> validation.detectedResources.items[i].size # Undef

\* a successful response without estimated tokens and without an error list,
\* one of whose resources has no size, has been turned into a result
C18_Witness ==
  /\ AnsweredSuccess
  /\ stdio.answer.data.estimatedTokens = Undef
  /\ ~stdio.answer.data.errors.present
  /\ \E i \in 1..Len(stdio.answer.data.detectedResources.items) :
       stdio.answer.data.detectedResources.items[i].size = Undef
  /\ ~stdio.result.isError
  /\ Len(stdio.result.resources) = 2

C20_ErrorsCaughtAtDispatch ==
  /\ ~stdio.escaped
  /\ ~stdio.other.escaped
  /\ stdio.other.op = "no_such_tool" => stdio.other.result.isError
  /\ stdio.other.op = "schema://audio" => stdio.other.result.isError
  /\ NoCredential /\ stdio.phase = "idle" => stdio.result.isError
  /\ Answered("non2xx") \/ Answered("neterr") => stdio.result.isError

\* the error a validate call is answered with when its arguments do not
\* pass: no arguments at all, no type, no config, a config string that is
\* not JSON
ArgumentError(args) ==
  IF ~args.present THEN CannotDestructure
  ELSE IF Falsy(args.type) THEN MissingType
  ELSE IF args.config.t \in {Undefined, Null} \/ args.config = [t |-> "string", text |-> ""]
       THEN MissingConfig
  ELSE InvalidJson

\* C28: a validate call of the stdio variant whose type is missing, whose
\* config is missing, or whose config is a string that is not valid JSON
\* comes back at once as an error result that names the argument, and nothing
\* is posted, whether or not a credential is available.
C28_ArgumentsCheckedFirst ==
  stdio.called /\ ~ArgumentsPass =>
    /\ stdio.phase = "idle"
    /\ stdio.result.isError
    /\ stdio.result.text = ArgumentError(stdio.args)
    /\ stdio.sent = <<>>
    /\ stdio.answer = NoAnswer

\* a call without any credential whose config is a string that is not JSON
\* has been answered with the error about the config
C28_Witness ==
  /\ NoCredential
  /\ ~Falsy(stdio.args.type)
  /\ stdio.args.config.t = "string" /\ stdio.args.config.text # ""
  /\ stdio.result.text = InvalidJson
  /\ stdio.posted = 0

-----------------------------------------------------------------------------
(* Claims about the builders *)

\* the defaults documented for the shape a tool builds
DocumentedDefaults(tool) ==
  IF tool = "create_image_config"
  THEN ("width" :> Num(1920)) @@ ("height" :> Num(1080))
  ELSE ("width" :> Num(1280)) @@ ("height" :> Num(720)) @@ ("fps" :> Num(25))
       @@ ("format" :> Str("mp4"))

\* C10 as stated: in both variants and for both shapes, a builder given a
\* bundle returns a configuration in which every field that has a documented
\* default and is absent from the bundle has that default, and given the
\* empty bundle returns a configuration whose sized fields are exactly the
\* documented defaults (next to an empty layers or clips list)
C10_DefaultsWhenAbsent ==
  (build.tool # "none" /\ build.args.present) =>
    LET defaults == DocumentedDefaults(build.tool)
        made == build.result.config
    IN /\ ~build.result.isError
       /\ \A f \in DOMAIN defaults \ DOMAIN build.args.fields :
            f \in DOMAIN made /\ made[f] = defaults[f]
       /\ build.args.fields = EmptyMap =>
            DOMAIN made \ {"layers", "clips"} = DOMAIN defaults

\* a builder has been called with a bundle
BuiltFrom == build.tool # "none" /\ build.args.present

\* C11 as stated: every field of the bundle that is not one of the optional
\* properties of the shape, recognized by the builder or not, is a key of the
\* output configuration with the value that was supplied
C11_OtherFieldsPassThrough ==
  BuiltFrom =>
    \A f \in DOMAIN build.args.fields \ OptionalProperties(build.tool) :
      /\ f \in DOMAIN build.result.config
      /\ build.result.config[f] = build.args.fields[f]

\* C12 as stated: an image configuration has each of backgroundColor, format,
\* quality and defaults as a key exactly when the bundle has it, and the
\* configuration built from a bundle holding only a list of layers is exactly
\* width 1920, height 1080 and the supplied layers
C12_NoInventedOptionalKey ==
  (BuiltFrom /\ build.tool = "create_image_config") =>
    /\ \A f \in OptionalProperties(build.tool) :
         f \in DOMAIN build.result.config <=> f \in DOMAIN build.args.fields
    /\ (DOMAIN build.args.fields = {"layers"} /\ build.args.fields["layers"].t = "array") =>
         build.result.config =
           DocumentedDefaults(build.tool) @@ ("layers" :> build.args.fields["layers"])

\* C13 as stated: every property of the shape that the bundle supplies is a
\* key of the output configuration with the value that was supplied,
\* whatever that value is
C13_SuppliedValueCopied ==
  BuiltFrom =>
    \A f \in DOMAIN build.args.fields \cap Properties(build.tool) :
      /\ f \in DOMAIN build.result.config
      /\ build.result.config[f] = build.args.fields[f]

\* C14 as stated: whatever the argument bundle, absent and empty ones
\* included, a builder returns a success result
C14_BuildNeverErrors ==
  build.tool # "none" => ~build.result.isError

-----------------------------------------------------------------------------
(* Claims about start-up and the schema documents *)

\* the file is there and is JSON
WellFormed(file) == file \notin {NoFile, "", "{oops"}

\* the document a well-formed file holds
DocumentOf(file) == IF file = "null" THEN JsonNull ELSE Json("object", 0, file)

\* C23: in both variants a process that is serving, or has answered a
\* request, has read both schema files and parsed them, and holds what it
\* parsed; a process that found either file missing or not JSON has ended
\* without listening and without answering anything.
C23_NoRequestBeforeSchemas ==
  /\ boot.pc = "serving" \/ boot.accepted =>
       /\ WellFormed(boot.files.image) /\ WellFormed(boot.files.video)
       /\ boot.imageSchema = DocumentOf(boot.files.image)
       /\ boot.videoSchema = DocumentOf(boot.files.video)
  /\ ~(WellFormed(boot.files.image) /\ WellFormed(boot.files.video)) =>
       boot.pc \in {"load_image", "load_video", "aborted"} /\ ~boot.accepted
  /\ boot.pc = "aborted" => ~boot.accepted

\* an HTTP process whose image schema was read and whose video schema is not
\* JSON has ended without answering anything
C23_Witness ==
  /\ boot.variant = "http"
  /\ boot.files.image = ImageSchemaFile
  /\ boot.files.video = "{oops"
  /\ boot.pc = "aborted"
  /\ ~boot.accepted

\* the text of a schema document as the schema tool of a variant returns it
ToolText(b, shape) ==
  CASE b.variant = "http" /\ shape = "image" -> httpHandleGetImageSchema(b)
    [] b.variant = "http" /\ shape = "video" -> httpHandleGetVideoSchema(b)
    [] b.variant = "stdio" /\ shape = "image" -> stdioHandleGetImageSchema(b)
    [] OTHER -> stdioHandleGetVideoSchema(b)

\* the text of a schema document as the schema resource of a variant returns it
ResourceText(b, shape) ==
  IF b.variant = "http" THEN httpReadSchema(b, "schema://" \o shape).text
  ELSE stdioReadSchema(b, "schema://" \o shape).text

\* C26: in a serving process of either variant the schema documents are the
\* ones read at start-up, whatever has been served since; for each shape the
\* schema tool and the schema resource return the same text, which is that
\* document written out; and the text last served for a shape, in whatever
\* session, is that text.
C26_SchemaDocumentsFixed ==
  boot.pc = "serving" =>
    /\ boot.imageSchema = DocumentOf(boot.files.image)
    /\ boot.videoSchema = DocumentOf(boot.files.video)
    /\ \A shape \in {"image", "video"} :
         LET document == DocumentOf(boot.files[shape])
         IN /\ ToolText(boot, shape) = JSONstringify(document)
            /\ ResourceText(boot, shape) = ToolText(boot, shape)
            /\ boot.served.op \in {"get_" \o shape \o "_schema", "schema://" \o shape} =>
                 boot.served.text = JSONstringify(document)

\* the image schema has been read as a resource in the second session of an
\* HTTP process
C26_Witness ==
  /\ boot.variant = "http"
  /\ boot.files.image = ImageSchemaFile
  /\ boot.served.op = "schema://image"
  /\ boot.served.session = 2
  /\ boot.served.text = "{\n  \"title\": \"Image\"\n}"

-----------------------------------------------------------------------------
(* Claims about the two registries *)

\* the key an outbound validation request has to carry: the call's apiKey
\* argument if one is supplied, the configured credential if none is
KeyToCarry == IF Falsy(both.args.apiKey) THEN both.cred ELSE both.args.apiKey

\* C24: in both variants, the validation request a validate_config call
\* posts carries the call's apiKey argument when one is supplied and the
\* configured credential only when none is, and the call leaves the
\* configured credential as it was.
C24_ArgumentKeyFirst ==
  both.name = "validate_config" =>
    /\ \A i \in 1..Len(both.stdio.sent) : both.stdio.sent[i].key = KeyToCarry
    /\ \A i \in 1..Len(both.http.sent) : both.http.sent[i].key = KeyToCarry
    /\ both.config = config(both.cred)
    /\ both.apiKey = both.cred

\* both registries hold kA, the call supplied kB, and both posted a request
C24_Witness ==
  /\ both.name = "validate_config"
  /\ both.cred = "kA" /\ both.args.apiKey = "kB"
  /\ Len(both.stdio.sent) = 1 /\ Len(both.http.sent) = 1
  /\ both.stdio.sent[1].key = "kB" /\ both.http.sent[1].key = "kB"

\* the same outcome and the same content: error or not, the configuration
\* built, the schema document, the verdict and the errors of the validation
Equivalent(a, b) ==
  /\ a.isError = b.isError
  /\ a.config = b.config
  /\ a.document = b.document
  /\ a.valid = b.valid
  /\ a.errors = b.errors

\* C29 as stated: for every tool name and every argument bundle, the
\* registry of the stdio variant and the registry of an HTTP session, given
\* the same input, the same credential and the same answer of the remote
\* API, return equivalent results.
C29_VariantsAgree ==
  both.name # "none" => Equivalent(both.stdio, both.http)

====
